---- MODULE Spec2Model ----
(***************************************************************************)
(* Model of the page-fetch task of nomad (src/network/client.rs,           *)
(* src/network/page_request.rs): one background task driving one request  *)
(* from submission to a terminal status, the caller-side request handle,   *)
(* the transport the task talks to (path table, link-event broadcast,      *)
(* timers), and the announce handling of NetworkClient with its            *)
(* destination cache and node registry.                                    *)
(***************************************************************************)
EXTENDS Integers, Sequences, FiniteSets, TLC

\* ------------------------------------------------------------------ bounds
MaxEvents == 3     \* link events the transport emits during one fetch
MaxQueue  == 1     \* events buffered in the broadcast receiver at one time
MaxParts  == 2     \* total_parts of the multi-part resource h1
MaxHops   == 1     \* largest hop count in the path table
MaxAnnounces == 2  \* handle_announce calls made on one NetworkClient
MaxTasks  == 2     \* tasks that call handle_announce concurrently
MaxPackets == 5    \* resource packets given to one ResourceManager
MaxBack == 2       \* pages a Browser keeps on its back stack
\* MAX_HISTORY of browser/history.rs, which is 100 there: the model keeps
\* the cap small and the code compares lengths with it and nothing else.
MAX_HISTORY == 3

\* --------------------------------------------------------------- constants
None      == -1                      \* Option::None of a number
Hops      == 1..MaxHops
Hashes    == {"h1", "h2"}            \* content hashes of announced resources
NoHash    == "none"                  \* current_resource_hash = None
Contents  == {"Hello"}               \* page bodies of one-shot responses
PageBody  == "page-body"             \* body carried by the resource h1
\* The resources a responder serves have MaxParts parts each: those of h1
\* assemble to a page, those of h2 do not hash to h2.
TotalParts(h) == MaxParts
\* The decrypted content of a resource: a MessagePack pair whose second
\* element is the page, or bytes of another shape.
PageData      == [kind |-> "text", c |-> PageBody]
MalformedData == [kind |-> "malformed", c |-> ""]
ServedData    == {PageData, MalformedData}

\* ------------------------------------------- destinations and announces
AddrHashes == {"a1", "a2"}           \* 16-byte address hashes
Identities == {"k1"}                 \* public key / verifying key pairs
NodeName   == "nomadnetwork.node"    \* DestinationName::new("nomadnetwork", "node")
PeerName   == "lxmf.delivery"        \* the name of any other destination
DestNames  == {NodeName, PeerName}
NoName     == "<none>"               \* Option<String>::None
UnknownName == "Unknown"

\* PageEntry { url, content } of the Browser; None for current, pending_url
\* and error.
PageEntry(url, content) == [url |-> url, content |-> content]
NoPage  == PageEntry("none", "none")
NoUrl   == "none"
NoError == "none"

\* DestinationDesc { identity, address_hash, name }
Desc(h, n, k) == [address_hash |-> h, name |-> n, identity |-> k]
NoDesc == Desc("none", "none", "none")
Descs  == {Desc(h, n, k) : h \in AddrHashes, n \in DestNames, k \in Identities}

\* NodeInfo { hash, name, identity }; PeerInfo has an optional name.
Info(h, n, k) == [hash |-> h, name |-> n, identity |-> k]
NoNode == Info("none", "none", "none")

\* The node a fetch is made for.
FetchNode == Info("a1", "Alice", "k1")

\* NodeInfo::to_destination_desc
to_destination_desc(node) == Desc(node.hash, NodeName, node.identity)

\* app_data of an announce: shape of the bytes and the text they carry.
\*   empty     no bytes
\*   array     MessagePack array whose first element is the name
\*   arraynil  MessagePack array whose first element is nil
\*   raw       plain UTF-8 text
AppData(shape, text) == [shape |-> shape, text |-> text]
AppDatas == {AppData("empty", ""), AppData("array", "Alice"),
             AppData("arraynil", ""), AppData("raw", "Bob")}

\* ------------------------------------------------------------ PageStatus
St(tag, msg, a, b) == [tag |-> tag, msg |-> msg, a |-> a, b |-> b]
RequestingPath     == St("RequestingPath", "", 0, 0)
WaitingForAnnounce == St("WaitingForAnnounce", "", 0, 0)
PathFound(h)       == St("PathFound", "", h, 0)
Connecting         == St("Connecting", "", 0, 0)
LinkEstablished    == St("LinkEstablished", "", 0, 0)
SendingRequest     == St("SendingRequest", "", 0, 0)
AwaitingResponse   == St("AwaitingResponse", "", 0, 0)
Retrieving(k, n)   == St("Retrieving", "", k, n)
Complete           == St("Complete", "", 0, 0)
Cancelled          == St("Cancelled", "", 0, 0)
Failed(m)          == St("Failed", m, 0, 0)

IsTerminal(s) == s.tag \in {"Complete", "Cancelled", "Failed"}

\* Stage rank of a status: its position in the order of the state machine.
Rank(s) ==
  CASE s.tag = "RequestingPath"     -> 1
    [] s.tag = "WaitingForAnnounce" -> 2
    [] s.tag = "PathFound"          -> 3
    [] s.tag = "Connecting"         -> 4
    [] s.tag = "LinkEstablished"    -> 5
    [] s.tag = "SendingRequest"     -> 6
    [] s.tag = "AwaitingResponse"   -> 7
    [] s.tag = "Retrieving"         -> 8
    [] OTHER                        -> 9

\* --------------------------------------------------- Result<bytes, String>
Ok(v)  == [ok |-> TRUE,  val |-> v]
Err(m) == [ok |-> FALSE, val |-> m]
NoResult == [ok |-> FALSE, val |-> ""]

\* ----------------------------------------------------------- LinkEventData
\* id: "own" is the id of the request's link, "other" any other link id.
\* ev: Activated | Data | ResourcePacket | Closed.
\* Data:           kind = shape of the MessagePack payload, c = its content.
\* ResourcePacket: kind = "adv" (announcement of h with n parts)
\*                      | "part" (part n of resource h).
Ev(id, ev, kind, h, n, c) ==
  [id |-> id, ev |-> ev, kind |-> kind, h |-> h, n |-> n, c |-> c]
NoEvent == Ev("none", "none", "", NoHash, 0, "")

DataEvents ==
  {Ev("own", "Data", "malformed", NoHash, 0, ""),
   Ev("own", "Data", "nil", NoHash, 0, ""),
   Ev("own", "Data", "badutf8", NoHash, 0, "")}
  \cup {Ev("own", "Data", "text", NoHash, 0, c) : c \in Contents}
AdvEvents  ==
  {Ev("own", "ResourcePacket", "adv", h, TotalParts(h), "") : h \in Hashes}
PartEvents ==
  UNION {{Ev("own", "ResourcePacket", "part", h, i, "") : i \in 0..(TotalParts(h) - 1)}
           : h \in Hashes}
OwnEvents ==
  {Ev("own", "Activated", "", NoHash, 0, ""), Ev("own", "Closed", "", NoHash, 0, "")}
  \cup DataEvents \cup AdvEvents \cup PartEvents
OtherEvents ==
  {Ev("other", "Activated", "", NoHash, 0, ""), Ev("other", "Closed", "", NoHash, 0, "")}
LinkEvents == OwnEvents \cup OtherEvents

\* ------------------------------------------------------------------- state
VARIABLES
  pc,                 \* position of the background task in fetch_page_inner
  status,             \* value of the status watch channel
  statusLog,          \* every status the task has written, in order
  result_tx,          \* TRUE while the handle still owns the oneshot sender
  result,             \* values sent on the result channel, in order
  pending,            \* result that complete/fail/cancelled is about to send
  cancel,             \* the cancellation token
  dropped,            \* the caller has dropped its FetchRequest
  path,               \* transport path table: hop count to the node or None
  has_path,           \* local has_path of fetch_page_inner
  hops,               \* value returned by transport.path_hops
  already_active,     \* local already_active of fetch_page_inner
  link_result,        \* value returned by wait_for_link_activation
  link_events,        \* events buffered in the task's broadcast receiver
  lagged,             \* the receiver fell behind: next recv is Err(Lagged)
  chanClosed,         \* every sender of the broadcast channel is gone
  emitted,            \* number of events the transport has emitted
  pathTimedOut,       \* start.elapsed() >= PATH_REQUEST_TIMEOUT
  linkDeadlinePassed, \* the activation wait is running and its deadline has passed
  activatedInTime,    \* the link's Activated event was emitted during the
                      \* activation wait, before its deadline
  lastEvent,          \* last event (event_data) the task acted on
  loopOwnEvents,      \* events of its own link the response loop has handled
  resources,          \* ResourceManager: per content hash the ResourceInfo
  current_resource_hash,
  total_parts,
  calls,              \* transport calls made by the task, in order
  dest_desc,          \* local dest_desc of fetch_page_inner
  known_destinations, \* NetworkClient: address hash -> DestinationDesc
  registry,           \* NodeRegistry.nodes: address hash -> NodeInfo
  file,               \* content of the registry's backing file
  writes_ok,          \* every fs::write since the registry was opened succeeded
  handled,            \* the announces handled, in order of their cache insert
  node_announce,      \* NodeInfo values sent on node_announce_tx, in order
  peer_announce,      \* PeerInfo values sent on peer_announce_tx, in order
  apc,                \* per task: its position in handle_announce
  announce,           \* per task: the arguments of its handle_announce call
  announces,          \* number of handle_announce calls started
  ahead,              \* per task: the tasks whose announce, for the same
                      \* channel, was written before this task's first
                      \* write and is not sent yet
  packets,            \* resource packets given to handle_packet, in order
  returned,           \* what handle_packet returned for each of them
  served,             \* the contents the responder may have split into the
                      \* parts of h1
  history,            \* a History: back_stack and forward_stack of PageUrl
  browser             \* a Browser: current, back_stack, forward_stack,
                      \* pending_url, loading, error

vars == <<pc, status, statusLog, result_tx, result, pending, cancel, dropped,
          path, has_path, hops, already_active, link_result, link_events,
          lagged, chanClosed, emitted, pathTimedOut, linkDeadlinePassed,
          activatedInTime,
          lastEvent, loopOwnEvents, resources, current_resource_hash,
          total_parts, calls, dest_desc, known_destinations, registry, file,
          writes_ok,
          handled, node_announce, peer_announce, apc, announce, announces,
          ahead, packets, returned, served, history, browser>>

\* The state outside the fetch task, the announce handling and the
\* ResourceManager.
otherVars  == <<served, history, browser>>
callerVars == <<cancel, dropped>>
outVars    == <<result_tx, result>>
pathVars   == <<path, has_path, hops, pathTimedOut>>
linkVars   == <<already_active, link_result, linkDeadlinePassed>>
chanVars   == <<link_events, lagged, chanClosed, emitted>>
evVars     == <<lastEvent, loopOwnEvents>>
resVars    == <<resources, current_resource_hash, total_parts>>
clientVars == <<known_destinations, registry, file, writes_ok, handled,
               node_announce,
                peer_announce>>
taskVars   == <<apc, announce, announces, ahead>>
feedVars   == <<packets, returned>>
fetchVars  == <<pc, status, statusLog, outVars, pending, callerVars, pathVars,
                linkVars, chanVars, evVars, resVars, calls, dest_desc, feedVars,
                activatedInTime>>

NoPayload == [of |-> NoHash, i |-> 0]
NoResource ==
  [known |-> FALSE, total_parts |-> 0, received |-> {}, payload |-> <<>>]

Tasks == 1..MaxTasks
\* Arguments of handle_announce: desc, identity, app_data.
Announce(d, k, a) == [desc |-> d, identity |-> k, app_data |-> a]
NoAnnounce == Announce(NoDesc, "none", AppData("empty", ""))

\* NetworkClient::new starts with an empty destination cache.
EmptyCache == [h \in AddrHashes |-> NoDesc]
\* The cache after handle_announce has stored a descriptor of the fetched
\* node's address, announced under another name, and one of every other
\* address.
AnnouncedCache ==
  [h \in AddrHashes |->
     Desc(h, IF h = FetchNode.hash THEN PeerName ELSE NodeName, "k1")]
\* A registry opened on a missing file holds no node.
EmptyRegistry == [h \in AddrHashes |-> NoNode]
\* The backing file after a whole-file write of nodes.
FileOf(nodes) == [nodes |-> nodes, complete |-> TRUE]
\* The backing file after a write of nodes that was cut short: it holds a
\* proper prefix of the text of nodes.
Partial(nodes) == [nodes |-> nodes, complete |-> FALSE]

InitState ==
  /\ pc = "Start"
  /\ status = RequestingPath
  /\ statusLog = <<>>
  /\ result_tx = TRUE
  /\ result = <<>>
  /\ pending = NoResult
  /\ cancel = FALSE
  /\ dropped = FALSE
  /\ path \in {None} \cup Hops
  /\ has_path = FALSE
  /\ hops = None
  /\ already_active = FALSE
  /\ link_result = "none"
  /\ link_events = <<>>
  /\ lagged = FALSE
  /\ chanClosed = FALSE
  /\ emitted = 0
  /\ pathTimedOut = FALSE
  /\ linkDeadlinePassed = FALSE
  /\ activatedInTime = FALSE
  /\ lastEvent = NoEvent
  /\ loopOwnEvents = 0
  /\ resources = [h \in Hashes |-> NoResource]
  /\ current_resource_hash = NoHash
  /\ total_parts = 0
  /\ calls = <<>>
  /\ dest_desc = NoDesc
  /\ registry = EmptyRegistry
  /\ file = FileOf(EmptyRegistry)
  /\ writes_ok = TRUE
  /\ handled = <<>>
  /\ node_announce = <<>>
  /\ peer_announce = <<>>
  /\ apc = [t \in Tasks |-> "idle"]
  /\ announce = [t \in Tasks |-> NoAnnounce]
  /\ announces = 0
  /\ ahead = [t \in Tasks |-> {}]
  /\ packets = <<>>
  /\ returned = <<>>
  /\ history = [back_stack |-> <<>>, forward_stack |-> <<>>]
  /\ browser = [current |-> NoPage, back_stack |-> <<>>,
                forward_stack |-> <<>>, pending_url |-> NoUrl,
                loading |-> "Idle", error |-> NoError]

\* A fetch from a responder that serves a page under the hash h1.
Init ==
  /\ InitState
  /\ known_destinations = EmptyCache
  /\ served = {PageData}

\* A fetch from a responder that serves any content
\* under the hash h1.
InitServed ==
  /\ InitState
  /\ known_destinations = EmptyCache
  /\ served = ServedData

\* A fetch by a client that has handled no announce, or one announce for
\* each address.
InitCached ==
  /\ InitState
  /\ known_destinations \in {EmptyCache, AnnouncedCache}
  /\ served = {PageData}

\* ------------------------------------------------- FetchRequestHandle
is_cancelled == cancel

\* set_status for the statuses ss written one after the other in one step.
set_statuses(ss) ==
  /\ status' = ss[Len(ss)]
  /\ statusLog' = statusLog \o ss

set_status(s) == set_statuses(<<s>>)

\* complete / fail / cancelled: publish the terminal status, then (at
\* SendResult) take result_tx and send the result.  pre are the statuses the
\* same step wrote before.
complete(pre, data) ==
  /\ set_statuses(pre \o <<Complete>>)
  /\ pending' = Ok(data)
  /\ pc' = "SendResult"

fail(pre, reason) ==
  /\ set_statuses(pre \o <<Failed(reason)>>)
  /\ pending' = Err(reason)
  /\ pc' = "SendResult"

\* cancelled that publishes the status and forgets the result channel.
cancelled_NoSend(pre) ==
  /\ set_statuses(pre \o <<Cancelled>>)
  /\ pending' = pending
  /\ pc' = "Done"

\* cancelled written as a failure with the reason "Cancelled".
cancelled_AsFailure(pre) ==
  /\ set_statuses(pre \o <<Failed("Cancelled")>>)
  /\ pending' = Err("Cancelled")
  /\ pc' = "SendResult"

cancelled(pre) ==
  /\ set_statuses(pre \o <<Cancelled>>)
  /\ pending' = Err("Cancelled")
  /\ pc' = "SendResult"

\* Second half of complete / fail / cancelled, and the return of
\* fetch_page_inner, which drops the receiver, the resource manager and the
\* other locals of the task.
SendResult ==
  /\ pc = "SendResult"
  /\ pc' = "Done"
  /\ IF result_tx
       THEN result' = Append(result, pending) /\ result_tx' = FALSE
       ELSE UNCHANGED outVars
  /\ link_events' = <<>>
  /\ lagged' = FALSE
  /\ lastEvent' = NoEvent
  /\ loopOwnEvents' = 0
  /\ resources' = [h \in Hashes |-> NoResource]
  /\ current_resource_hash' = NoHash
  /\ total_parts' = 0
  /\ UNCHANGED <<status, statusLog, pending, callerVars, pathVars, linkVars,
                 chanClosed, emitted, calls>>
  /\ dest_desc' = NoDesc
  /\ UNCHANGED <<clientVars, taskVars, feedVars, activatedInTime, otherVars>>

\* A Drop that releases the handle without cancelling the token.
Drop_NoCancel ==
  /\ ~dropped
  /\ dropped' = TRUE
  /\ UNCHANGED <<pc, status, statusLog, outVars, pending, cancel, pathVars,
                 linkVars, chanVars, evVars, resVars, calls>>
  /\ UNCHANGED <<dest_desc, clientVars, taskVars, feedVars, activatedInTime, otherVars>>

\* impl Drop for FetchRequest
Drop ==
  /\ ~dropped
  /\ dropped' = TRUE
  /\ cancel' = TRUE
  /\ UNCHANGED <<pc, status, statusLog, outVars, pending, pathVars, linkVars,
                 chanVars, evVars, resVars, calls>>
  /\ UNCHANGED <<dest_desc, clientVars, taskVars, feedVars, activatedInTime, otherVars>>

\* ------------------------------------------------------------- messages
NoPathMsg        == "No path to node - try again later"
LinkClosedMsg    == "Link closed"
ConnTimedOutMsg  == "Connection timed out"
ChanClosedMsg    == "Link events channel closed"
TimedOutMsg      == "Request timed out"
PacketErrorMsg   == "data_packet error"
NoContentMsg     == "No content in response"
ParseErrorMsg    == "Failed to parse response"
InvalidUtf8Msg   == "Invalid UTF-8"
AssembleErrorMsg == "Failed to assemble resource"
ResourceParseMsg == "Failed to parse resource response"

\* ------------------------------------------------ fetch_page_inner: path
\* has_path check at submission; RequestingPath when the path is unknown.
FetchStart ==
  /\ pc = "Start"
  /\ has_path' = (path # None)
  /\ IF has_path'
       THEN pc' = "AfterPath" /\ UNCHANGED <<status, statusLog>>
       ELSE pc' = "RequestPath" /\ set_status(RequestingPath)
  /\ UNCHANGED <<outVars, pending, callerVars, path, hops, pathTimedOut,
                 linkVars, chanVars, evVars, resVars, calls>>
  /\ UNCHANGED <<dest_desc, clientVars, taskVars, feedVars, activatedInTime, otherVars>>

\* transport.request_path, WaitingForAnnounce, start of wait_for_path.
RequestPath ==
  /\ pc = "RequestPath"
  /\ calls' = Append(calls, "request_path")
  /\ set_status(WaitingForAnnounce)
  /\ pathTimedOut' = FALSE
  /\ pc' = "WaitPathTop"
  /\ UNCHANGED <<outVars, pending, callerVars, path, has_path, hops,
                 linkVars, chanVars, evVars, resVars>>
  /\ UNCHANGED <<dest_desc, clientVars, taskVars, feedVars, activatedInTime, otherVars>>

\* A path wait that asks for the path a second time when the first wait
\* ran out.
WaitForPath_Retry ==
  /\ pc = "WaitPathTop"
  /\ IF pathTimedOut \/ is_cancelled
       THEN IF is_cancelled
              THEN cancelled(<<>>)
              ELSE IF Len(calls) < 2
                     THEN pc' = "RequestPath" /\ UNCHANGED <<status, statusLog, pending>>
                     ELSE fail(<<>>, NoPathMsg)
       ELSE /\ pc' = IF path # None THEN "AfterPath" ELSE "PathSleep"
            /\ UNCHANGED <<status, statusLog, pending>>
  /\ UNCHANGED <<outVars, callerVars, pathVars, linkVars, chanVars, evVars,
                 resVars, calls>>
  /\ UNCHANGED <<dest_desc, clientVars, taskVars, feedVars, activatedInTime, otherVars>>

\* One iteration of the polling loop of wait_for_path, and what
\* fetch_page_inner does when the wait returns false.
WaitForPath ==
  /\ pc = "WaitPathTop"
  /\ IF pathTimedOut \/ is_cancelled
       THEN IF is_cancelled THEN cancelled(<<>>) ELSE fail(<<>>, NoPathMsg)
       ELSE /\ pc' = IF path # None THEN "AfterPath" ELSE "PathSleep"
            /\ UNCHANGED <<status, statusLog, pending>>
  /\ UNCHANGED <<outVars, callerVars, pathVars, linkVars, chanVars, evVars,
                 resVars, calls>>
  /\ UNCHANGED <<dest_desc, clientVars, taskVars, feedVars, activatedInTime, otherVars>>

\* tokio::time::sleep(check_interval) returns.
PathSleepDone ==
  /\ pc = "PathSleep"
  /\ pc' = "WaitPathTop"
  /\ UNCHANGED <<status, statusLog, outVars, pending, callerVars, pathVars,
                 linkVars, chanVars, evVars, resVars, calls>>
  /\ UNCHANGED <<dest_desc, clientVars, taskVars, feedVars, activatedInTime, otherVars>>

\* check_cancelled, then path_hops and PathFound.
CheckPathHops ==
  /\ pc = "AfterPath"
  /\ IF is_cancelled
       THEN cancelled(<<>>) /\ UNCHANGED hops
       ELSE /\ hops' = path
            /\ IF path # None
                 THEN set_status(PathFound(path))
                 ELSE UNCHANGED <<status, statusLog>>
            /\ pc' = "LookupDest"
            /\ UNCHANGED pending
  /\ UNCHANGED <<outVars, callerVars, path, has_path, pathTimedOut, linkVars,
                 chanVars, evVars, resVars, calls>>
  /\ UNCHANGED <<dest_desc, clientVars, taskVars, feedVars, activatedInTime, otherVars>>

\* A lookup that takes any cached descriptor before it synthesizes one.
LookupDest_AnyEntry ==
  /\ pc = "LookupDest"
  /\ dest_desc' = IF \E h \in AddrHashes : known_destinations[h] # NoDesc
                    THEN known_destinations[
                           CHOOSE h \in AddrHashes :
                             /\ known_destinations[h] # NoDesc
                             /\ h # FetchNode.hash]
                    ELSE to_destination_desc(FetchNode)
  /\ IF is_cancelled
       THEN cancelled(<<>>) /\ UNCHANGED link_events
       ELSE /\ set_status(Connecting)
            /\ link_events' = <<>>
            /\ pc' = "Link"
            /\ UNCHANGED pending
  /\ UNCHANGED <<outVars, callerVars, pathVars, linkVars, lagged, chanClosed,
                 emitted, evVars, resVars, calls>>
  /\ UNCHANGED <<clientVars, taskVars, feedVars, activatedInTime, otherVars>>

\* A lookup that stores the synthesized descriptor in the cache on a miss.
LookupDest_Caches ==
  /\ pc = "LookupDest"
  /\ dest_desc' = IF known_destinations[FetchNode.hash] # NoDesc
                    THEN known_destinations[FetchNode.hash]
                    ELSE to_destination_desc(FetchNode)
  /\ known_destinations' =
       [known_destinations EXCEPT ![FetchNode.hash] = dest_desc']
  /\ IF is_cancelled
       THEN cancelled(<<>>) /\ UNCHANGED link_events
       ELSE /\ set_status(Connecting)
            /\ link_events' = <<>>
            /\ pc' = "Link"
            /\ UNCHANGED pending
  /\ UNCHANGED <<outVars, callerVars, pathVars, linkVars, lagged, chanClosed,
                 emitted, evVars, resVars, calls>>
  /\ UNCHANGED <<registry, file, writes_ok, handled, node_announce,
                 peer_announce,
                 taskVars, feedVars, activatedInTime, otherVars>>

\* Destination lookup, check_cancelled, Connecting, out_link_events().
LookupDest ==
  /\ pc = "LookupDest"
  /\ dest_desc' = IF known_destinations[FetchNode.hash] # NoDesc
                    THEN known_destinations[FetchNode.hash]
                    ELSE to_destination_desc(FetchNode)
  /\ IF is_cancelled
       THEN cancelled(<<>>) /\ UNCHANGED link_events
       ELSE /\ set_status(Connecting)
            /\ link_events' = <<>>
            /\ pc' = "Link"
            /\ UNCHANGED pending
  /\ UNCHANGED <<outVars, callerVars, pathVars, linkVars, lagged, chanClosed,
                 emitted, evVars, resVars, calls>>
  /\ UNCHANGED <<clientVars, taskVars, feedVars, activatedInTime, otherVars>>

\* transport.link, link id and status; the deadline of the activation wait
\* is fixed here, when wait_for_link_activation starts.
CreateLink ==
  /\ pc = "Link"
  /\ calls' = Append(calls, "link")
  /\ \E active \in BOOLEAN :
       /\ already_active' = active
       /\ pc' = IF active THEN "Established" ELSE "LinkWaitTop"
  /\ linkDeadlinePassed' = FALSE
  /\ UNCHANGED <<status, statusLog, outVars, pending, callerVars, pathVars,
                 link_result, chanVars, evVars, resVars>>
  /\ UNCHANGED <<dest_desc, clientVars, taskVars, feedVars, activatedInTime, otherVars>>

\* ------------------------------------------ wait_for_link_activation
\* What fetch_page_inner does with the LinkWaitResult r; pre-empted by
\* check_cancelled for Closed and Timeout.
OnLinkWaitResult(r) ==
  /\ link_result' = r
  /\ linkDeadlinePassed' = FALSE
  /\ CASE r = "Activated" -> pc' = "Established" /\ UNCHANGED <<status, statusLog, pending>>
       [] r = "Closed"    -> IF is_cancelled THEN cancelled(<<>>) ELSE fail(<<>>, LinkClosedMsg)
       [] r = "Timeout"   -> IF is_cancelled THEN cancelled(<<>>) ELSE fail(<<>>, ConnTimedOutMsg)

\* Head of the loop with the timeout restarted at every iteration
\* (timeout(timeout_duration, recv) instead of timeout(remaining, recv)).
LinkWaitTop_RestartTimer ==
  /\ pc = "LinkWaitTop"
  /\ IF is_cancelled
       THEN OnLinkWaitResult("Closed")
       ELSE /\ pc' = "LinkWaitRecv"
            /\ linkDeadlinePassed' = FALSE
            /\ UNCHANGED <<status, statusLog, pending, link_result>>
  /\ UNCHANGED <<outVars, callerVars, pathVars, already_active, chanVars,
                 evVars, resVars, calls>>
  /\ UNCHANGED <<dest_desc, clientVars, taskVars, feedVars, activatedInTime, otherVars>>

\* Head of the loop: cancellation, then the remaining time.
LinkWaitTop ==
  /\ pc = "LinkWaitTop"
  /\ IF is_cancelled
       THEN OnLinkWaitResult("Closed")
       ELSE IF linkDeadlinePassed
              THEN OnLinkWaitResult("Timeout")
              ELSE /\ pc' = "LinkWaitRecv"
                   /\ UNCHANGED <<status, statusLog, pending, link_result,
                                  linkDeadlinePassed>>
  /\ UNCHANGED <<outVars, callerVars, pathVars, already_active, chanVars,
                 evVars, resVars, calls>>
  /\ UNCHANGED <<dest_desc, clientVars, taskVars, feedVars, activatedInTime, otherVars>>

\* A wait that takes the Activated or Closed event of any link for its own.
LinkWaitRecvEvent_AnyLink ==
  /\ pc = "LinkWaitRecv"
  /\ ~lagged
  /\ link_events # <<>>
  /\ LET e == Head(link_events) IN
       /\ link_events' = Tail(link_events)
       /\ IF e.ev = "Activated"
            THEN OnLinkWaitResult("Activated") /\ lastEvent' = e
            ELSE IF e.ev = "Closed"
                   THEN OnLinkWaitResult("Closed") /\ lastEvent' = e
                   ELSE /\ pc' = "LinkWaitTop"
                        /\ UNCHANGED <<status, statusLog, pending, link_result,
                                       linkDeadlinePassed, lastEvent>>
  /\ UNCHANGED <<outVars, callerVars, pathVars, already_active, lagged,
                 chanClosed, emitted, loopOwnEvents, resVars, calls>>
  /\ UNCHANGED <<dest_desc, clientVars, taskVars, feedVars, activatedInTime, otherVars>>

\* timeout(remaining, recv) returns an event.
LinkWaitRecvEvent ==
  /\ pc = "LinkWaitRecv"
  /\ ~lagged
  /\ link_events # <<>>
  /\ LET e == Head(link_events) IN
       /\ link_events' = Tail(link_events)
       /\ IF e.id = "own" /\ e.ev = "Activated"
            THEN OnLinkWaitResult("Activated") /\ lastEvent' = e
            ELSE IF e.id = "own" /\ e.ev = "Closed"
                   THEN OnLinkWaitResult("Closed") /\ lastEvent' = e
                   ELSE /\ pc' = "LinkWaitTop"
                        /\ UNCHANGED <<status, statusLog, pending, link_result,
                                       linkDeadlinePassed, lastEvent>>
  /\ UNCHANGED <<outVars, callerVars, pathVars, already_active, lagged,
                 chanClosed, emitted, loopOwnEvents, resVars, calls>>
  /\ UNCHANGED <<dest_desc, clientVars, taskVars, feedVars, activatedInTime, otherVars>>

\* recv returns Err: the receiver lagged, or the channel is closed and empty.
LinkWaitRecvError ==
  /\ pc = "LinkWaitRecv"
  /\ lagged \/ (link_events = <<>> /\ chanClosed)
  /\ lagged' = FALSE
  /\ OnLinkWaitResult("Closed")
  /\ UNCHANGED <<outVars, callerVars, pathVars, already_active, link_events,
                 chanClosed, emitted, evVars, resVars, calls>>
  /\ UNCHANGED <<dest_desc, clientVars, taskVars, feedVars, activatedInTime, otherVars>>

\* The deadline passes while recv is pending.
LinkWaitTimeout ==
  /\ pc = "LinkWaitRecv"
  /\ ~lagged /\ link_events = <<>> /\ ~chanClosed
  /\ linkDeadlinePassed
  /\ OnLinkWaitResult("Timeout")
  /\ UNCHANGED <<outVars, callerVars, pathVars, already_active, chanVars,
                 evVars, resVars, calls>>
  /\ UNCHANGED <<dest_desc, clientVars, taskVars, feedVars, activatedInTime, otherVars>>

\* SendRequest with the two statuses before the send written in the wrong
\* order.
SendRequest_Swapped ==
  /\ pc = "Established"
  /\ \E sent \in BOOLEAN :
       IF sent
         THEN /\ calls' = Append(calls, "send:Request")
              /\ set_statuses(<<SendingRequest, LinkEstablished, AwaitingResponse>>)
              /\ pc' = "LoopTop"
              /\ UNCHANGED pending
         ELSE /\ fail(<<SendingRequest, LinkEstablished>>, PacketErrorMsg)
              /\ UNCHANGED calls
  /\ UNCHANGED <<outVars, callerVars, pathVars, linkVars, chanVars, evVars,
                 resVars>>
  /\ UNCHANGED <<dest_desc, clientVars, taskVars, feedVars, activatedInTime, otherVars>>

\* link.lock().await and drop(link_guard): the guard of the link mutex as
\* the task holds it at a point of its code.
Held     == "held"
Released == "released"
lock_link == Held
drop(link_guard) == Released

\* transport.send_packet(packet).await, entered with the guard as it is at
\* that point: the call log tells a send made under the guard from one made
\* after its release.
send_packet(link_guard, packet) ==
  Append(calls, (IF link_guard = Held THEN "held:" ELSE "send:") \o packet)

\* LinkEstablished, SendingRequest, send_page_request, AwaitingResponse.
SendRequest ==
  /\ pc = "Established"
  /\ \E sent \in BOOLEAN :
       IF sent
         THEN /\ LET link_guard == lock_link IN
                   calls' = send_packet(drop(link_guard), "Request")
              /\ set_statuses(<<LinkEstablished, SendingRequest, AwaitingResponse>>)
              /\ pc' = "LoopTop"
              /\ UNCHANGED pending
         ELSE /\ fail(<<LinkEstablished, SendingRequest>>, PacketErrorMsg)
              /\ UNCHANGED calls
  /\ UNCHANGED <<outVars, callerVars, pathVars, linkVars, chanVars, evVars,
                 resVars>>
  /\ UNCHANGED <<dest_desc, clientVars, taskVars, feedVars, activatedInTime, otherVars>>

\* --------------------------------------------------- response decoding
\* parse_page_response with the Option test inverted.
parse_page_response_Inverted(e) ==
  CASE e.kind = "malformed" -> Err(ParseErrorMsg)
    [] e.kind = "nil"       -> Ok("")
    [] e.kind = "badutf8"   -> Err(InvalidUtf8Msg)
    [] OTHER                -> Err(NoContentMsg)

\* parse_page_response that takes a nil content for an empty page.
parse_page_response_NilIsEmpty(e) ==
  CASE e.kind = "malformed" -> Err(ParseErrorMsg)
    [] e.kind = "nil"       -> Ok("")
    [] e.kind = "badutf8"   -> Err(InvalidUtf8Msg)
    [] OTHER                -> Ok(e.c)

\* parse_page_response on the payload of a Data event: a MessagePack tuple
\* (f64, bytes, Option<bytes>) whose third element must be UTF-8 content.
parse_page_response(e) ==
  CASE e.kind = "malformed" -> Err(ParseErrorMsg)
    [] e.kind = "nil"       -> Err(NoContentMsg)
    [] e.kind = "badutf8"   -> Err(InvalidUtf8Msg)
    [] OTHER                -> Ok(e.c)

\* The byte strings a resource of the given content hash may assemble to.
ResourceData(h) ==
  CASE h = "h1" -> served
    [] OTHER    -> {[kind |-> "malformed", c |-> ""]}

\* parse_resource_content on assembled bytes: a tuple (bytes, bytes) whose
\* second element is the UTF-8 page body.
parse_resource_content(d) ==
  CASE d.kind = "malformed" -> Err(ResourceParseMsg)
    [] d.kind = "badutf8"   -> Err(InvalidUtf8Msg)
    [] OTHER                -> Ok(d.c)

\* ------------------------------------------------------- ResourceManager
PartIndices(n) == 0..(n - 1)
received_count(info) == Cardinality(info.received)

\* The payload of a resource part: chunk n of the content its sender split.
PartPayload(e) == [of |-> e.h, i |-> e.n]
\* The content a sender split into the parts of resource h.
Original(h) == [i \in PartIndices(TotalParts(h)) |-> [of |-> h, i |-> i]]
\* The bytes assembled from a ResourceInfo: its parts in index order.
Assembled(info) == [i \in PartIndices(info.total_parts) |-> info.payload[i]]

\* A handle_packet that starts the resource afresh at every announcement.
handle_packet_state_AdvResets(res, e) ==
  IF e.kind = "adv"
    THEN [res EXCEPT ![e.h] =
            [known |-> TRUE, total_parts |-> e.n, received |-> {},
             payload |-> [i \in PartIndices(e.n) |-> NoPayload]]]
    ELSE IF res[e.h].known /\ e.n \in PartIndices(res[e.h].total_parts)
           THEN [res EXCEPT ![e.h].received = @ \cup {e.n},
                            ![e.h].payload[e.n] = PartPayload(e)]
           ELSE res

\* ResourceManager state after handle_packet.
handle_packet_state(res, e) ==
  IF e.kind = "adv"
    THEN IF res[e.h].known
           THEN res
           ELSE [res EXCEPT ![e.h] =
                   [known |-> TRUE, total_parts |-> e.n, received |-> {},
                    payload |-> [i \in PartIndices(e.n) |-> NoPayload]]]
    ELSE IF res[e.h].known /\ e.n \in PartIndices(res[e.h].total_parts)
           THEN [res EXCEPT ![e.h].received = @ \cup {e.n},
                            ![e.h].payload[e.n] = PartPayload(e)]
           ELSE res

\* ResourceHandleResult of handle_packet.
handle_packet_result(res, e) ==
  IF e.kind = "adv"
    THEN "RequestParts"
    ELSE IF /\ res[e.h].known
            /\ e.n \in PartIndices(res[e.h].total_parts)
            /\ res[e.h].received \cup {e.n} = PartIndices(res[e.h].total_parts)
           THEN "Assemble"
           ELSE "None"

\* create_request_packet is Some while parts are missing.
create_request_packet(info) == info.received # PartIndices(info.total_parts)

\* assemble_and_prove is Some when the parts hash to the announced hash:
\* the parts sent for h2 do not.
assemble_and_prove(h) == h = "h1"

\* --------------------------------------- fetch_page_inner: response loop
\* A loop head that goes on to recv without looking at the token.
LoopTop_NoCheck ==
  /\ pc = "LoopTop"
  /\ pc' = "LoopRecv"
  /\ UNCHANGED <<status, statusLog, pending>>
  /\ UNCHANGED <<outVars, callerVars, pathVars, linkVars, chanVars, evVars,
                 resVars, calls>>
  /\ UNCHANGED <<dest_desc, clientVars, taskVars, feedVars, activatedInTime, otherVars>>

LoopTop ==
  /\ pc = "LoopTop"
  /\ IF is_cancelled
       THEN cancelled(<<>>)
       ELSE pc' = "LoopRecv" /\ UNCHANGED <<status, statusLog, pending>>
  /\ UNCHANGED <<outVars, callerVars, pathVars, linkVars, chanVars, evVars,
                 resVars, calls>>
  /\ UNCHANGED <<dest_desc, clientVars, taskVars, feedVars, activatedInTime, otherVars>>

\* LinkEvent::Data
OnData(e) ==
  /\ LET r == parse_page_response(e) IN
       IF r.ok THEN complete(<<>>, r.val) ELSE fail(<<>>, r.val)
  /\ UNCHANGED <<resVars, calls>>

\* A RequestParts arm that sends while the guard taken for handle_packet
\* is still alive.
OnRequestParts_HoldsGuard(e, res) ==
  LET info == res[e.h]
      link_guard == lock_link
  IN
    /\ current_resource_hash' = e.h
    /\ total_parts' = info.total_parts
    /\ set_status(Retrieving(received_count(info), info.total_parts))
    /\ calls' = IF create_request_packet(info)
                  THEN send_packet(link_guard, "Parts") ELSE calls
    /\ pc' = "LoopTop"
    /\ UNCHANGED pending

\* ResourceHandleResult::RequestParts; link_guard is the guard taken at
\* the head of the ResourcePacket arm.
OnRequestParts(e, res) ==
  LET info == res[e.h]
      link_guard == lock_link
  IN
    /\ current_resource_hash' = e.h
    /\ total_parts' = info.total_parts
    /\ set_status(Retrieving(received_count(info), info.total_parts))
    /\ calls' = IF create_request_packet(info)
                  THEN send_packet(drop(link_guard), "Parts") ELSE calls
    /\ pc' = "LoopTop"
    /\ UNCHANGED pending

\* An Assemble arm that acknowledges the resource before it is verified.
OnAssemble_ProofFirst(e, res) ==
  LET info == res[e.h]
      pre  == <<Retrieving(info.total_parts, info.total_parts)>>
  IN
    /\ calls' = Append(calls, "send:Proof")
    /\ IF assemble_and_prove(e.h)
         THEN \E data \in ResourceData(e.h) :
                LET r == parse_resource_content(data) IN
                  IF r.ok THEN complete(pre, r.val) ELSE fail(pre, r.val)
         ELSE fail(pre, AssembleErrorMsg)
    /\ UNCHANGED <<current_resource_hash, total_parts>>

\* ResourceHandleResult::Assemble; link_guard is the guard taken at the
\* head of the ResourcePacket arm.
OnAssemble(e, res) ==
  LET info == res[e.h]
      pre  == <<Retrieving(info.total_parts, info.total_parts)>>
      link_guard == lock_link
  IN
    /\ IF assemble_and_prove(e.h)
         THEN /\ calls' = send_packet(drop(link_guard), "Proof")
              /\ \E data \in ResourceData(e.h) :
                   LET r == parse_resource_content(data) IN
                     IF r.ok THEN complete(pre, r.val) ELSE fail(pre, r.val)
         ELSE /\ fail(pre, AssembleErrorMsg)
              /\ UNCHANGED calls
    /\ UNCHANGED <<current_resource_hash, total_parts>>

\* A None arm that leaves the status as it is.
OnNone_NoRefresh(e, res) ==
  /\ pc' = "LoopTop"
  /\ UNCHANGED <<status, statusLog, pending, current_resource_hash,
                 total_parts, calls>>

\* ResourceHandleResult::None
OnNone(e, res) ==
  /\ IF current_resource_hash # NoHash
       THEN LET info == res[current_resource_hash] IN
              set_status(Retrieving(received_count(info), info.total_parts))
       ELSE UNCHANGED <<status, statusLog>>
  /\ pc' = "LoopTop"
  /\ UNCHANGED <<pending, current_resource_hash, total_parts, calls>>

\* LinkEvent::ResourcePacket
OnResourcePacket(e) ==
  LET r   == handle_packet_result(resources, e)
      res == handle_packet_state(resources, e)
  IN
    /\ resources' = res
    /\ CASE r = "RequestParts" -> OnRequestParts(e, res)
         [] r = "Assemble"     -> OnAssemble(e, res)
         [] OTHER              -> OnNone(e, res)

\* A Closed arm that fails the request and goes on with the loop.
OnClosed_NoReturn ==
  /\ set_status(Failed(LinkClosedMsg))
  /\ pc' = "LoopTop"
  /\ UNCHANGED <<pending, resVars, calls>>

\* A Closed arm swallowed by the catch-all arm.
OnClosed_Ignored ==
  /\ pc' = "LoopTop"
  /\ UNCHANGED <<status, statusLog, pending, resVars, calls>>

\* LinkEvent::Closed
OnClosed ==
  /\ fail(<<>>, LinkClosedMsg)
  /\ UNCHANGED <<resVars, calls>>

\* A catch-all arm that takes a stray event for the end of the link.
OnIgnored_AsClosed ==
  /\ fail(<<>>, LinkClosedMsg)
  /\ UNCHANGED <<resVars, calls>>

\* Any other event of the own link, and every event of another link.
OnIgnored ==
  /\ pc' = "LoopTop"
  /\ UNCHANGED <<status, statusLog, pending, resVars, calls>>

\* timeout(60 s, recv) returns an event.
LoopRecvEvent ==
  /\ pc = "LoopRecv"
  /\ ~lagged
  /\ link_events # <<>>
  /\ LET e == Head(link_events) IN
       /\ link_events' = Tail(link_events)
       /\ lastEvent' = IF e.id = "own" /\ e.ev # "Activated" THEN e ELSE lastEvent
       /\ loopOwnEvents' = IF e.id = "own" THEN loopOwnEvents + 1 ELSE loopOwnEvents
       /\ CASE e.id = "own" /\ e.ev = "Data"           -> OnData(e)
            [] e.id = "own" /\ e.ev = "ResourcePacket" -> OnResourcePacket(e)
            [] e.id = "own" /\ e.ev = "Closed"         -> OnClosed
            [] OTHER                                   -> OnIgnored
  /\ UNCHANGED <<outVars, callerVars, pathVars, linkVars, lagged, chanClosed,
                 emitted>>
  /\ UNCHANGED <<dest_desc, clientVars, taskVars, feedVars, activatedInTime, otherVars>>

\* recv returns Err: the receiver lagged, or the channel is closed and empty.
LoopRecvError ==
  /\ pc = "LoopRecv"
  /\ lagged \/ (link_events = <<>> /\ chanClosed)
  /\ lagged' = FALSE
  /\ fail(<<>>, ChanClosedMsg)
  /\ UNCHANGED <<outVars, callerVars, pathVars, linkVars, link_events,
                 chanClosed, emitted, evVars, resVars, calls>>
  /\ UNCHANGED <<dest_desc, clientVars, taskVars, feedVars, activatedInTime, otherVars>>

\* No event within 60 s of the start of this recv.
LoopRecvTimeout ==
  /\ pc = "LoopRecv"
  /\ ~lagged /\ link_events = <<>> /\ ~chanClosed
  /\ fail(<<>>, TimedOutMsg)
  /\ UNCHANGED <<outVars, callerVars, pathVars, linkVars, chanVars, evVars,
                 resVars, calls>>
  /\ UNCHANGED <<dest_desc, clientVars, taskVars, feedVars, activatedInTime, otherVars>>

\* ------------------------------------------------------------- transport
PathPhase  == {"Start", "RequestPath", "WaitPathTop", "PathSleep", "AfterPath"}
Subscribed == {"Link", "LinkWaitTop", "LinkWaitRecv", "Established",
               "LoopTop", "LoopRecv"}

\* An announce of the node reaches the transport: the path becomes known.
PathLearned ==
  /\ pc \in PathPhase
  /\ path = None
  /\ path' \in Hops
  /\ UNCHANGED <<pc, status, statusLog, outVars, pending, callerVars, has_path,
                 hops, pathTimedOut, linkVars, chanVars, evVars, resVars, calls>>
  /\ UNCHANGED <<dest_desc, clientVars, taskVars, feedVars, activatedInTime, otherVars>>

\* The path table entry expires.
PathExpired ==
  /\ pc \in PathPhase
  /\ path # None
  /\ path' = None
  /\ UNCHANGED <<pc, status, statusLog, outVars, pending, callerVars, has_path,
                 hops, pathTimedOut, linkVars, chanVars, evVars, resVars, calls>>
  /\ UNCHANGED <<dest_desc, clientVars, taskVars, feedVars, activatedInTime, otherVars>>

\* PATH_REQUEST_TIMEOUT elapses.
PathTimeout ==
  /\ pc \in {"WaitPathTop", "PathSleep"}
  /\ ~pathTimedOut
  /\ pathTimedOut' = TRUE
  /\ UNCHANGED <<pc, status, statusLog, outVars, pending, callerVars, path,
                 has_path, hops, linkVars, chanVars, evVars, resVars, calls>>
  /\ UNCHANGED <<dest_desc, clientVars, taskVars, feedVars, activatedInTime, otherVars>>

\* The deadline of wait_for_link_activation is reached.
LinkDeadline ==
  /\ pc \in {"LinkWaitTop", "LinkWaitRecv"}
  /\ ~linkDeadlinePassed
  /\ linkDeadlinePassed' = TRUE
  /\ UNCHANGED <<pc, status, statusLog, outVars, pending, callerVars, pathVars,
                 already_active, link_result, chanVars, evVars, resVars, calls>>
  /\ UNCHANGED <<dest_desc, clientVars, taskVars, feedVars, activatedInTime, otherVars>>

\* The transport broadcasts a link event.
Emit ==
  /\ pc \in Subscribed
  /\ ~chanClosed
  /\ emitted < MaxEvents
  /\ Len(link_events) < MaxQueue
  /\ \E e \in LinkEvents :
       /\ link_events' = Append(link_events, e)
       /\ activatedInTime' =
            (\/ activatedInTime
             \/ /\ e.id = "own" /\ e.ev = "Activated"
                /\ pc \in {"LinkWaitTop", "LinkWaitRecv"}
                /\ ~linkDeadlinePassed)
  /\ emitted' = emitted + 1
  /\ UNCHANGED <<pc, status, statusLog, outVars, pending, callerVars, pathVars,
                 linkVars, lagged, chanClosed, evVars, resVars, calls>>
  /\ UNCHANGED <<dest_desc, clientVars, taskVars, feedVars, otherVars>>

\* The transport broadcasts an event of another link; the other links of
\* the transport stay in use for as long as the fetch runs.
EmitOther ==
  /\ pc \in Subscribed
  /\ ~chanClosed
  /\ Len(link_events) < MaxQueue
  /\ \E e \in OtherEvents : link_events' = Append(link_events, e)
  /\ UNCHANGED <<pc, status, statusLog, outVars, pending, callerVars, pathVars,
                 linkVars, lagged, chanClosed, emitted, evVars, resVars, calls>>
  /\ UNCHANGED <<dest_desc, clientVars, taskVars, feedVars, activatedInTime, otherVars>>

\* The receiver falls behind: its oldest event is overwritten.
Lag ==
  /\ pc \in Subscribed
  /\ ~lagged
  /\ link_events # <<>>
  /\ lagged' = TRUE
  /\ link_events' = Tail(link_events)
  /\ UNCHANGED <<pc, status, statusLog, outVars, pending, callerVars, pathVars,
                 linkVars, chanClosed, emitted, evVars, resVars, calls>>
  /\ UNCHANGED <<dest_desc, clientVars, taskVars, feedVars, activatedInTime, otherVars>>

\* The transport drops the sender of the broadcast channel.
CloseChannel ==
  /\ pc \in Subscribed
  /\ ~chanClosed
  /\ chanClosed' = TRUE
  /\ UNCHANGED <<pc, status, statusLog, outVars, pending, callerVars, pathVars,
                 linkVars, link_events, lagged, emitted, evVars, resVars, calls>>
  /\ UNCHANGED <<dest_desc, clientVars, taskVars, feedVars, activatedInTime, otherVars>>

\* -------------------------------------------------------- handle_announce
\* Name hash of a destination name.
NameHash(n) == <<"name_hash", n>>

\* A classification that takes every destination for a node.
is_node_announce_desc_Any(desc) == desc.name \in DestNames

is_node_announce_desc(desc) == NameHash(desc.name) = NameHash(NodeName)

\* parse_display_name: the first element of a MessagePack array, or the
\* bytes themselves as UTF-8; None for empty data and for a nil element.
parse_display_name(app_data) ==
  CASE app_data.shape = "empty"    -> NoName
    [] app_data.shape = "array"    -> app_data.text
    [] app_data.shape = "arraynil" -> NoName
    [] OTHER                       -> app_data.text

\* The NodeInfo handle_announce builds for a node announce.
NodeOf(a) ==
  LET name == parse_display_name(a.app_data) IN
    Info(a.desc.address_hash,
         IF name = NoName THEN UnknownName ELSE name,
         a.identity)

\* The PeerInfo handle_announce builds for any other announce.
PeerOf(a) ==
  Info(a.desc.address_hash, parse_display_name(a.app_data), a.identity)

\* NodeRegistry::persist: fs::write of all nodes, which truncates the file
\* at its path and writes the text in place; an error is ignored. The file
\* is rewritten, left alone (it could not be opened), or cut short (the
\* write failed or the process stopped part-way).
persist(nodes) ==
  \/ file' = FileOf(nodes) /\ UNCHANGED writes_ok
  \/ file' = file /\ writes_ok' = FALSE
  \/ file' = Partial(nodes) /\ writes_ok' = FALSE

\* Task u has made every state write of its announce and has not sent it:
\* the cache insert of a peer announce, the registry save of a node announce.
WritesDone(u) ==
  \/ apc[u] = "saved"
  \/ apc[u] = "inserted" /\ ~is_node_announce_desc(announce[u].desc)

\* Tasks are interchangeable: a new call is made by the idle task of the
\* lowest number.
FirstIdle(t) ==
  /\ apc[t] = "idle"
  /\ \A u \in Tasks : u < t => apc[u] # "idle"

\* The tasks whose announce goes to the same broadcast channel as desc and
\* was written before task t starts on desc.
Ahead(t, desc) ==
  {u \in Tasks \ {t} :
     /\ WritesDone(u)
     /\ is_node_announce_desc(announce[u].desc) <=> is_node_announce_desc(desc)}

\* A save that keeps the entry a hash already has.
save_KeepFirst(node) ==
  /\ registry' = IF registry[node.hash] = NoNode
                   THEN [registry EXCEPT ![node.hash] = node]
                   ELSE registry
  /\ persist(registry')

\* NodeRegistry::save
save(node) ==
  /\ registry' = [registry EXCEPT ![node.hash] = node]
  /\ persist(registry')

\* NodeRegistry::update_name: only a node that is present is renamed and
\* written.
update_name(hash, name) ==
  IF registry[hash] # NoNode
    THEN /\ registry' = [registry EXCEPT ![hash].name = name]
         /\ persist(registry')
    ELSE UNCHANGED <<registry, file, writes_ok>>

\* A remove that leaves the file as it is.
remove_NoPersist(hash) ==
  /\ registry' = [registry EXCEPT ![hash] = NoNode]
  /\ UNCHANGED <<file, writes_ok>>

\* NodeRegistry::remove: the file is written only if a node was removed.
remove(hash) ==
  IF registry[hash] # NoNode
    THEN /\ registry' = [registry EXCEPT ![hash] = NoNode]
         /\ persist(registry')
    ELSE UNCHANGED <<registry, file, writes_ok>>

\* hex::encode of the bytes of an address hash or of a key, and hex::decode.
hex_encode(bytes) ==
  CASE bytes = "a1" -> "6131"
    [] bytes = "a2" -> "6132"
    [] bytes = "k1" -> "6b31"
hex_decode(str) ==
  CHOOSE bytes \in AddrHashes \cup Identities : hex_encode(bytes) = str

\* One [[nodes]] table of the file: hash and keys in hex, the name as it is.
Table(node) ==
  [hash     |-> hex_encode(node.hash),
   name     |-> node.name,
   identity |-> hex_encode(node.identity)]

\* toml::to_string_pretty of NodesFile { nodes: values of the map }: the
\* tables of the nodes, in the order the HashMap yields them.
to_string_pretty(nodes) ==
  {Table(nodes[h]) : h \in {a \in AddrHashes : nodes[a] # NoNode}}

\* toml::from_str into NodesFile: the NodeInfo of every table.
from_str(contents) ==
  {Info(hex_decode(t.hash), t.name, hex_decode(t.identity)) : t \in contents}

\* file.nodes.into_iter().map(|n| (n.hash, n)).collect()
collect(nodes) ==
  [h \in AddrHashes |->
     IF \E n \in nodes : n.hash = h
       THEN CHOOSE n \in nodes : n.hash = h
       ELSE NoNode]

\* NodeRegistry::load_from_path: a text that was cut short inside a table
\* is not TOML and gives the empty map, as a missing file does.
load_from_path(f) ==
  IF f.complete
    THEN collect(from_str(to_string_pretty(f.nodes)))
    ELSE EmptyRegistry

\* An insert that keeps the descriptor a hash already has.
AnnounceInsert_KeepFirst(t) ==
  /\ FirstIdle(t)
  /\ announces < MaxAnnounces
  /\ \E d \in Descs, a \in AppDatas :
       /\ announce' = [announce EXCEPT ![t] = Announce(d, d.identity, a)]
       /\ known_destinations' =
            IF known_destinations[d.address_hash] = NoDesc
              THEN [known_destinations EXCEPT ![d.address_hash] = d]
              ELSE known_destinations
       /\ handled' = Append(handled, Announce(d, d.identity, a))
  /\ announces' = announces + 1
  /\ ahead' = [ahead EXCEPT ![t] = Ahead(t, announce'[t].desc)]
  /\ apc' = [apc EXCEPT ![t] = "inserted"]
  /\ UNCHANGED <<fetchVars, otherVars, registry, file, writes_ok, node_announce,
                 peer_announce>>

\* handle_announce is called by task t with a descriptor, the identity of
\* the same destination and app_data; it inserts the descriptor into the
\* destination cache under its address hash.
AnnounceInsert(t) ==
  /\ FirstIdle(t)
  /\ announces < MaxAnnounces
  /\ \E d \in Descs, a \in AppDatas :
       /\ announce' = [announce EXCEPT ![t] = Announce(d, d.identity, a)]
       /\ known_destinations' = [known_destinations EXCEPT ![d.address_hash] = d]
       /\ handled' = Append(handled, Announce(d, d.identity, a))
  /\ announces' = announces + 1
  /\ ahead' = [ahead EXCEPT ![t] = Ahead(t, announce'[t].desc)]
  /\ apc' = [apc EXCEPT ![t] = "inserted"]
  /\ UNCHANGED <<fetchVars, otherVars, registry, file, writes_ok, node_announce,
                 peer_announce>>

\* Node announce: build the NodeInfo and save it under the write lock.
AnnounceSave(t) ==
  /\ apc[t] = "inserted"
  /\ is_node_announce_desc(announce[t].desc)
  /\ save(NodeOf(announce[t]))
  /\ apc' = [apc EXCEPT ![t] = "saved"]
  /\ UNCHANGED <<fetchVars, otherVars, known_destinations, handled, node_announce,
                 peer_announce, announce, announces, ahead>>

\* Node announce: send the NodeInfo on node_announce_tx and return.
AnnounceSendNode(t) ==
  /\ apc[t] = "saved"
  /\ node_announce' = Append(node_announce, NodeOf(announce[t]))
  /\ apc' = [apc EXCEPT ![t] = "idle"]
  /\ announce' = [announce EXCEPT ![t] = NoAnnounce]
  /\ ahead' = [u \in Tasks |-> IF u = t THEN {} ELSE ahead[u] \ {t}]
  /\ UNCHANGED <<fetchVars, otherVars, known_destinations, registry, file, writes_ok,
                 handled,
                 peer_announce, announces>>

\* Any other announce: send the PeerInfo on peer_announce_tx and return.
AnnounceSendPeer(t) ==
  /\ apc[t] = "inserted"
  /\ ~is_node_announce_desc(announce[t].desc)
  /\ peer_announce' = Append(peer_announce, PeerOf(announce[t]))
  /\ apc' = [apc EXCEPT ![t] = "idle"]
  /\ announce' = [announce EXCEPT ![t] = NoAnnounce]
  /\ ahead' = [u \in Tasks |-> IF u = t THEN {} ELSE ahead[u] \ {t}]
  /\ UNCHANGED <<fetchVars, otherVars, known_destinations, registry, file, writes_ok,
                 handled,
                 node_announce, announces>>

\* ------------------------------------------------------------------ spec
TaskNext ==
  \/ FetchStart \/ RequestPath \/ WaitForPath \/ PathSleepDone
  \/ CheckPathHops \/ LookupDest \/ CreateLink
  \/ LinkWaitTop \/ LinkWaitRecvEvent \/ LinkWaitRecvError \/ LinkWaitTimeout
  \/ SendRequest
  \/ LoopTop \/ LoopRecvEvent \/ LoopRecvError \/ LoopRecvTimeout
  \/ SendResult

EnvNext ==
  \/ Drop
  \/ PathLearned \/ PathExpired \/ PathTimeout
  \/ LinkDeadline \/ Emit \/ Lag \/ CloseChannel

Next == TaskNext \/ EnvNext

Spec == Init /\ [][Next]_vars

\* One fetch of a resource whose content is the responder's choice.
SpecServed == InitServed /\ [][Next]_vars

\* The caller and a transport that keeps its event channel open for the time
\* of the fetch: the descriptor is chosen before the task subscribes.
CachedNext ==
  \/ TaskNext
  \/ Drop
  \/ PathLearned \/ PathExpired \/ PathTimeout
  \/ LinkDeadline \/ Emit \/ Lag

\* One fetch by a client whose destination cache may hold announces.
SpecCached == InitCached /\ [][CachedNext]_vars

\* One fetch on a transport whose timers fire and whose other links go on
\* emitting events: the task runs whenever it can take a step (a ready
\* tokio task is polled, a pending recv returns at its timeout), and the
\* path timeout and the activation deadline are reached.
LiveNext ==
  \/ Next
  \/ EmitOther

SpecLive ==
  /\ Init
  /\ [][LiveNext]_vars
  /\ WF_vars(TaskNext)
  /\ WF_vars(PathTimeout)
  /\ WF_vars(LinkDeadline)

\* The announce handling of one NetworkClient, with no fetch in progress.
AnnounceNext ==
  \E t \in Tasks :
    \/ AnnounceInsert(t)
    \/ AnnounceSave(t)
    \/ AnnounceSendNode(t)
    \/ AnnounceSendPeer(t)

\* No path is known and no fetch has been submitted.
InitAnnounce == Init /\ path = None

SpecAnnounce == InitAnnounce /\ [][AnnounceNext]_vars

\* The NodeRegistry by itself: nodes are saved, renamed and removed, and
\* the registry is opened again on the same path.
NodeNames == {"Alice", "Bob", "Unknown"}

Save ==
  /\ \E h \in AddrHashes, n \in NodeNames : save(Info(h, n, "k1"))
  /\ UNCHANGED <<fetchVars, otherVars, known_destinations, handled, node_announce,
                 peer_announce, taskVars>>

UpdateName ==
  /\ \E h \in AddrHashes, n \in NodeNames : update_name(h, n)
  /\ UNCHANGED <<fetchVars, otherVars, known_destinations, handled, node_announce,
                 peer_announce, taskVars>>

Remove ==
  /\ \E h \in AddrHashes : remove(h)
  /\ UNCHANGED <<fetchVars, otherVars, known_destinations, handled, node_announce,
                 peer_announce, taskVars>>

\* NodeRegistry::new on the path of the registry in use.
New ==
  /\ registry' = load_from_path(file)
  /\ writes_ok' = TRUE
  /\ UNCHANGED <<fetchVars, otherVars, known_destinations, file, handled, node_announce,
                 peer_announce, taskVars>>

RegistryNext == Save \/ UpdateName \/ Remove \/ New

SpecRegistry == InitAnnounce /\ [][RegistryNext]_vars

\* ------------------------------------------------------------- History
PageUrls == {"/page1", "/page2"}

\* History::new
NewHistory == [back_stack |-> <<>>, forward_stack |-> <<>>]

\* Vec::push followed by remove(0) when the length exceeds MAX_HISTORY.
Capped(stack, url) ==
  LET pushed == Append(stack, url) IN
    IF Len(pushed) > MAX_HISTORY THEN Tail(pushed) ELSE pushed

\* Vec::pop: the stack without its last entry, if it has one.
Popped(stack) ==
  IF stack = <<>> THEN stack ELSE SubSeq(stack, 1, Len(stack) - 1)

\* A push that keeps the forward stack.
push_KeepsForward(h, url) ==
  [back_stack |-> Capped(h.back_stack, url), forward_stack |-> h.forward_stack]

\* History::push
push(h, url) ==
  [back_stack |-> Capped(h.back_stack, url), forward_stack |-> <<>>]

\* A push_back that never discards.
push_back_Unbounded(h, url) ==
  [h EXCEPT !.back_stack = Append(h.back_stack, url)]

\* History::push_back
push_back(h, url) == [h EXCEPT !.back_stack = Capped(h.back_stack, url)]

\* History::push_forward
push_forward(h, url) ==
  [h EXCEPT !.forward_stack = Capped(h.forward_stack, url)]

\* History::pop_back
pop_back(h) == [h EXCEPT !.back_stack = Popped(h.back_stack)]

\* History::pop_forward
pop_forward(h) == [h EXCEPT !.forward_stack = Popped(h.forward_stack)]

\* History::clear
clear(h) == NewHistory

\* The calls on a History.
Push ==
  /\ \E url \in PageUrls : history' = push(history, url)
  /\ UNCHANGED <<fetchVars, clientVars, taskVars, served, browser>>

PushBack ==
  /\ \E url \in PageUrls : history' = push_back(history, url)
  /\ UNCHANGED <<fetchVars, clientVars, taskVars, served, browser>>

PushForward ==
  /\ \E url \in PageUrls : history' = push_forward(history, url)
  /\ UNCHANGED <<fetchVars, clientVars, taskVars, served, browser>>

PopBack ==
  /\ history' = pop_back(history)
  /\ UNCHANGED <<fetchVars, clientVars, taskVars, served, browser>>

PopForward ==
  /\ history' = pop_forward(history)
  /\ UNCHANGED <<fetchVars, clientVars, taskVars, served, browser>>

Clear ==
  /\ history' = clear(history)
  /\ UNCHANGED <<fetchVars, clientVars, taskVars, served, browser>>

HistoryNext ==
  \/ Push \/ PushBack \/ PushForward
  \/ PopBack \/ PopForward \/ Clear

SpecHistory == InitAnnounce /\ [][HistoryNext]_vars

\* ------------------------------------------------------------- Browser
BrowserUrls  == {"abc:page1.mu", "abc:page2.mu"}
PageContents == {"", "Page content"}
FailReasons  == {"Connection failed"}

\* Browser::is_loading
is_loading(b) == b.loading # "Idle"

\* Browser::current_url
current_url(b) == IF b.current = NoPage THEN NoUrl ELSE b.current.url

\* Browser::navigate
navigate(b, url) ==
  [b EXCEPT !.pending_url = url, !.loading = "Connecting", !.error = NoError]

\* Browser::set_retrieving
set_retrieving(b, url) ==
  IF b.pending_url = url /\ b.loading = "Connecting"
    THEN [b EXCEPT !.loading = "Retrieving"]
    ELSE b

\* Browser::set_content
set_content(b, url, content) ==
  IF b.pending_url # url
    THEN b
    ELSE [current       |-> PageEntry(url, content),
          back_stack    |-> IF b.current # NoPage
                              THEN Append(b.back_stack, b.current)
                              ELSE b.back_stack,
          forward_stack |-> <<>>,
          pending_url   |-> NoUrl,
          loading       |-> "Idle",
          error         |-> NoError]

\* A set_failed that also gives up the page on screen.
set_failed_DropsPage(b, url, reason) ==
  IF b.pending_url = url
    THEN [b EXCEPT !.pending_url = NoUrl, !.loading = "Idle",
                   !.error = reason, !.current = NoPage]
    ELSE b

\* Browser::set_failed
set_failed(b, url, reason) ==
  IF b.pending_url = url
    THEN [b EXCEPT !.pending_url = NoUrl, !.loading = "Idle", !.error = reason]
    ELSE b

\* The tail of go_back and go_forward: entry becomes the current page, and
\* is requested again when it has no content.
Show(b, entry) ==
  IF entry.content # ""
    THEN [b EXCEPT !.current = entry, !.error = NoError]
    ELSE [b EXCEPT !.current = entry, !.error = NoError,
                   !.pending_url = entry.url, !.loading = "Connecting"]

\* A go_back that does not keep the page it leaves.
go_back_ForgetsCurrent(b) ==
  IF is_loading(b) \/ b.back_stack = <<>>
    THEN b
    ELSE Show([b EXCEPT !.back_stack = Popped(b.back_stack)],
              b.back_stack[Len(b.back_stack)])

\* Browser::go_back
go_back(b) ==
  IF is_loading(b) \/ b.back_stack = <<>>
    THEN b
    ELSE Show([b EXCEPT !.back_stack = Popped(b.back_stack),
                        !.forward_stack =
                           IF b.current # NoPage
                             THEN Append(b.forward_stack, b.current)
                             ELSE b.forward_stack],
              b.back_stack[Len(b.back_stack)])

\* Browser::go_forward
go_forward(b) ==
  IF is_loading(b) \/ b.forward_stack = <<>>
    THEN b
    ELSE Show([b EXCEPT !.forward_stack = Popped(b.forward_stack),
                        !.back_stack =
                           IF b.current # NoPage
                             THEN Append(b.back_stack, b.current)
                             ELSE b.back_stack],
              b.forward_stack[Len(b.forward_stack)])

\* The calls on a Browser. A page is loaded while the back stack has room.
Navigate ==
  /\ \E url \in BrowserUrls : browser' = navigate(browser, url)
  /\ UNCHANGED <<fetchVars, clientVars, taskVars, served, history>>

SetRetrieving ==
  /\ \E url \in BrowserUrls : browser' = set_retrieving(browser, url)
  /\ UNCHANGED <<fetchVars, clientVars, taskVars, served, history>>

SetContent ==
  /\ Len(browser.back_stack) < MaxBack
  /\ \E url \in BrowserUrls, content \in PageContents :
       browser' = set_content(browser, url, content)
  /\ UNCHANGED <<fetchVars, clientVars, taskVars, served, history>>

SetFailed ==
  /\ \E url \in BrowserUrls, reason \in FailReasons :
       browser' = set_failed(browser, url, reason)
  /\ UNCHANGED <<fetchVars, clientVars, taskVars, served, history>>

GoBack ==
  /\ browser' = go_back(browser)
  /\ UNCHANGED <<fetchVars, clientVars, taskVars, served, history>>

GoForward ==
  /\ browser' = go_forward(browser)
  /\ UNCHANGED <<fetchVars, clientVars, taskVars, served, history>>

BrowserNext ==
  \/ Navigate \/ SetRetrieving \/ SetContent \/ SetFailed
  \/ GoBack \/ GoForward

SpecBrowser == InitAnnounce /\ [][BrowserNext]_vars

\* A ResourceManager on one link is given resource packets in any order:
\* announcements, parts, and a part of h1 whose index is out of range.
StrayParts ==
  {Ev("own", "ResourcePacket", "part", "h1", TotalParts("h1"), "")}
ResourcePackets == AdvEvents \cup PartEvents \cup StrayParts

HandlePacket ==
  /\ Len(packets) < MaxPackets
  /\ \E e \in ResourcePackets :
       /\ resources' = handle_packet_state(resources, e)
       /\ returned' = Append(returned, handle_packet_result(resources, e))
       /\ packets' = Append(packets, e)
  /\ UNCHANGED <<pc, status, statusLog, outVars, pending, callerVars, pathVars,
                 linkVars, chanVars, evVars, current_resource_hash,
                 total_parts, calls, dest_desc, clientVars, taskVars,
                 activatedInTime, otherVars>>

SpecResource == InitAnnounce /\ [][HandlePacket]_vars

\* ---------------------------------------------------------------- claims
Last(q) == q[Len(q)]
TerminalWrites == {i \in 1..Len(statusLog) : IsTerminal(statusLog[i])}
Returned == pc \in {"SendResult", "Done"}

\* C1: every fetch publishes exactly one terminal status (Complete, Cancelled
\* or Failed) and sends exactly one value on the result channel, and the
\* terminal status is published before the result is sent.
C1_OneTerminalOneResult ==
  /\ Cardinality(TerminalWrites) <= 1
  /\ Len(result) <= 1
  /\ (Len(result) = 1 => Cardinality(TerminalWrites) = 1 /\ IsTerminal(status))
  /\ (Cardinality(TerminalWrites) = 1 <=> Returned)
  /\ (pc = "SendResult" => result = <<>> /\ result_tx)
  /\ (pc = "Done" => Len(result) = 1 /\ ~result_tx)

\* A fetch cancelled right after submission has published Cancelled, and
\* nothing else, and has sent its one result.
C1_Witness ==
  /\ pc = "Done"
  /\ statusLog = <<Cancelled>>
  /\ result = <<Err("Cancelled")>>

\* C2: once the status is Complete, Cancelled or Failed, no later write of
\* the task changes it.
C2_TerminalIsFinal ==
  [][IsTerminal(status) => (status' = status /\ statusLog' = statusLog)]_vars

\* The request is dropped after the task completed; the status stays Complete.
C2_Witness ==
  /\ pc = "Done"
  /\ status = Complete
  /\ dropped

\* C5: dropping the FetchRequest, at any point of the request's life, sets
\* the cancellation token, so that is_cancelled() returns true afterwards.
C5_DropCancels == dropped => is_cancelled

\* The request is dropped before the task has run its first step.
C5_Witness ==
  /\ dropped
  /\ pc = "Start"
  /\ is_cancelled

\* C6: the statuses written within one request never go backwards: each has
\* a stage rank at least that of the one written before (equal only between
\* two Retrieving), and a terminal status is the last one written.
C6_StatusOrder ==
  \A i \in 1..Len(statusLog) :
    /\ Rank(RequestingPath) <= Rank(statusLog[i])
    /\ (i > 1 => /\ Rank(statusLog[i - 1]) <= Rank(statusLog[i])
                 /\ (Rank(statusLog[i - 1]) = Rank(statusLog[i])
                       => statusLog[i].tag = "Retrieving"))
    /\ (IsTerminal(statusLog[i]) => i = Len(statusLog))

\* A request that went through every stage, from RequestingPath through
\* three Retrieving updates to Complete.
C6_Witness ==
  /\ Len(statusLog) >= 11
  /\ statusLog[1] = RequestingPath
  /\ status = Complete

OwnEv(ev) == lastEvent.id = "own" /\ lastEvent.ev = ev

\* C3: once cancellation is requested on a fetch whose status is not yet
\* terminal, the terminal status the task writes is Cancelled and the result
\* is Err("Cancelled"), whatever events or timeouts follow.
C3_CancelEndsCancelled ==
  [][(cancel /\ ~IsTerminal(status) /\ IsTerminal(status'))
       => (status' = Cancelled /\ pending' = Err("Cancelled"))]_vars

\* The task steps that need no further link event and no timer to expire:
\* every task step but the two timeouts, a recv taking an event that has
\* already arrived included.
TaskPolls ==
  \/ FetchStart \/ RequestPath \/ WaitForPath \/ PathSleepDone
  \/ CheckPathHops \/ LookupDest \/ CreateLink
  \/ LinkWaitTop \/ LinkWaitRecvEvent \/ LinkWaitRecvError
  \/ SendRequest
  \/ LoopTop \/ LoopRecvEvent \/ LoopRecvError
  \/ SendResult

CancelPhases ==
  \/ pc \in {"WaitPathTop", "PathSleep", "LinkWaitTop", "LinkWaitRecv"}
  \/ pc \in {"LoopTop", "LoopRecv"} /\ status.tag = "Retrieving"

\* C4: a fetch cancelled while it waits for a path, waits for link
\* activation or is Retrieving goes on to Cancelled by itself: it never sits
\* waiting for another link event or for a timeout to expire.
C4_CancelNeedsNoEvent ==
  (cancel /\ CancelPhases) => ENABLED TaskPolls

\* C4, for the path wait alone: the polling loop sees the cancellation at
\* its next iteration.
C4_PathWaitPolls ==
  (cancel /\ pc \in {"WaitPathTop", "PathSleep"}) => ENABLED TaskPolls

\* C7: with the path known (hop count h), the link active and a valid
\* one-shot Data response as the first event of the request's link, the
\* task writes PathFound{h}, Connecting, LinkEstablished, SendingRequest,
\* AwaitingResponse, Complete in this order, and the result is Ok(content).
C7_OneShotReply ==
  /\ \A c \in Contents :
       (/\ pc = "SendResult"
        /\ has_path /\ hops # None
        /\ loopOwnEvents = 1
        /\ lastEvent = Ev("own", "Data", "text", NoHash, 0, c))
       => /\ statusLog = <<PathFound(hops), Connecting, LinkEstablished,
                           SendingRequest, AwaitingResponse, Complete>>
          /\ pending = Ok(c)
  /\ (pc = "Done" /\ status = Complete /\ Len(statusLog) = 6)
       => \E c \in Contents : result = <<Ok(c)>>

\* The one-shot reply "Hello" has just been handled on a known path.
C7_Witness ==
  /\ pc = "SendResult"
  /\ has_path /\ hops \in Hops
  /\ loopOwnEvents = 1
  /\ lastEvent = Ev("own", "Data", "text", NoHash, 0, "Hello")
  /\ status = Complete

\* C8 (states): every Retrieving status has parts_received <= total_parts
\* and shows the number of distinct parts received of the current resource;
\* an announcement of a resource of N parts is answered by Retrieving{0,N}
\* when no part has arrived; the last part is answered by Retrieving{N,N},
\* then Complete with the page body as the result.
C8_RetrievingCounts ==
  /\ \A i \in 1..Len(statusLog) :
       statusLog[i].tag = "Retrieving" => statusLog[i].a <= statusLog[i].b
  /\ status.tag = "Retrieving"
       => /\ current_resource_hash \in Hashes
          /\ status = Retrieving(received_count(resources[current_resource_hash]),
                                 resources[current_resource_hash].total_parts)
  /\ (pc = "LoopTop" /\ loopOwnEvents >= 1 /\ OwnEv("ResourcePacket")
        /\ lastEvent.kind = "adv")
       => /\ current_resource_hash = lastEvent.h
          /\ status.tag = "Retrieving"
          /\ status.b = lastEvent.n
          /\ (resources[lastEvent.h].received = {} => status.a = 0)
  /\ (resources["h1"].known /\ resources["h1"].received = PartIndices(MaxParts))
       => /\ pc = "SendResult"
          /\ OwnEv("ResourcePacket") /\ lastEvent.kind = "part"
          /\ Len(statusLog) >= 2
          /\ statusLog[Len(statusLog) - 1] = Retrieving(MaxParts, MaxParts)
          /\ status = Complete
          /\ pending = Ok(PageBody)

\* C8 (steps): while the current resource stays the same, parts_received of
\* the published Retrieving status never decreases and total_parts is kept.
C8_RetrievingGrows ==
  (/\ status.tag = "Retrieving"
   /\ status'.tag = "Retrieving"
   /\ current_resource_hash' = current_resource_hash)
  => (status'.a >= status.a /\ status'.b = status.b)

\* C8: for a resource announced with N parts, arriving in any order, the
\* task publishes Retrieving{0,N}, then Retrieving{k,N} with k the number
\* of distinct parts received, then Retrieving{N,N} and Complete with the
\* page body; parts_received <= total_parts and never decreases.
C8_ResourceProgress == []C8_RetrievingCounts /\ [][C8_RetrievingGrows]_vars

\* The resource h1 was fetched part by part, part 1 before part 0.
C8_Witness ==
  /\ pc = "SendResult"
  /\ status = Complete
  /\ lastEvent = Ev("own", "ResourcePacket", "part", "h1", 0, "")
  /\ Len(statusLog) >= MaxParts + 2
  /\ statusLog[Len(statusLog) - MaxParts - 1] = Retrieving(0, MaxParts)
  /\ statusLog[Len(statusLog) - 1] = Retrieving(MaxParts, MaxParts)
  /\ pending = Ok(PageBody)

\* C9: a Closed event of the request's own link, received in the activation
\* wait or in the response loop, ends the request at once: Failed("Link
\* closed") with result Err("Link closed"), or Cancelled when the token was
\* set during the activation wait.
C9_ClosedFails ==
  /\ OwnEv("Closed")
       => /\ pc = "SendResult"
          /\ \/ status = Failed(LinkClosedMsg) /\ pending = Err(LinkClosedMsg)
             \/ status = Cancelled /\ cancel /\ loopOwnEvents = 0
  /\ (pc = "Done" /\ status = Failed(LinkClosedMsg))
       => result = <<Err(LinkClosedMsg)>>

\* The responder closed the link after the request was sent.
C9_Witness ==
  /\ pc = "SendResult"
  /\ OwnEv("Closed")
  /\ loopOwnEvents >= 1
  /\ Last(calls) = "send:Request"
  /\ status = Failed(LinkClosedMsg)

LinkWaiting == pc \in {"LinkWaitTop", "LinkWaitRecv"}

\* C10 (states): an activation wait that ends on its deadline ends the
\* request Failed("Connection timed out"), or Cancelled when the token is
\* set, and no request packet was sent.
C10_TimeoutFails ==
  link_result = "Timeout"
    => /\ Returned
       /\ ~already_active
       /\ \A i \in 1..Len(calls) : calls[i] # "send:Request"
       /\ \/ status = Failed(ConnTimedOutMsg) /\ pending = Err(ConnTimedOutMsg)
          \/ status = Cancelled /\ cancel

\* C10 (steps): the deadline is fixed when the wait starts: once it has
\* passed it stays passed for the rest of the wait, and the head of the loop
\* does not start another recv.
C10_DeadlineFixed ==
  (LinkWaiting /\ linkDeadlinePassed)
    => /\ (pc' \in {"LinkWaitTop", "LinkWaitRecv"} => linkDeadlinePassed')
       /\ (pc = "LinkWaitTop" => pc' # "LinkWaitRecv")

RecvPoints == {"LinkWaitRecv", "LoopRecv"}
LoopHeads  == {"LinkWaitTop", "LoopTop"}

\* C11: a lag notification of the link-event receiver is ignored: the recv
\* that reports it neither ends the request nor changes its status, and the
\* task goes back to the head of its loop to receive the next event.
C11_LagIgnored ==
  [][(pc \in RecvPoints /\ lagged /\ ~lagged')
       => (/\ status' = status
           /\ statusLog' = statusLog
           /\ pc' \in LoopHeads)]_vars

\* C12: when recv reports the broadcast channel closed, in the activation
\* wait as in the response loop, a request that is not cancelled ends
\* Failed("Link events channel closed") with the same text as its result.
C12_ChannelClosedFails ==
  [][(/\ pc \in RecvPoints
      /\ ~lagged /\ chanClosed /\ link_events = <<>>
      /\ ~cancel
      /\ pc' # pc)
       => (/\ status' = Failed(ChanClosedMsg)
           /\ pending' = Err(ChanClosedMsg))]_vars

\* A recv that takes an event of another link.
TakesOtherEvent ==
  /\ pc \in RecvPoints
  /\ ~lagged
  /\ link_events # <<>>
  /\ Head(link_events).id = "other"
  /\ pc' # pc

\* C13: an event whose id is not the id of the request's link is ignored in
\* the activation wait and in the response loop: taking it changes no
\* status, sends no packet, ends nothing and leaves the resource state and
\* the outcome of the wait alone; the task is back at the head of its loop.
C13_OtherLinkIgnored ==
  [][TakesOtherEvent
       => (/\ link_events' = Tail(link_events)
           /\ pc' = (IF pc = "LinkWaitRecv" THEN "LinkWaitTop" ELSE "LoopTop")
           /\ UNCHANGED <<status, statusLog, pending, result_tx, result,
                          calls, link_result, resources,
                          current_resource_hash, total_parts, lastEvent,
                          loopOwnEvents>>)]_vars

\* The response loop of a request on an already active link has taken an
\* event of another link and is back at its head, still AwaitingResponse.
C13_Witness ==
  /\ pc = "LoopTop"
  /\ already_active
  /\ emitted >= 1 /\ link_events = <<>> /\ ~lagged
  /\ loopOwnEvents = 0
  /\ status = AwaitingResponse
  /\ Last(calls) = "send:Request"

\* C14: a one-shot Data response whose content is nil ends the request
\* Failed("No content in response") with an Err result, never Complete.
C14_NilContentFails ==
  /\ (OwnEv("Data") /\ lastEvent.kind = "nil")
       => /\ pc = "SendResult"
          /\ status = Failed(NoContentMsg)
          /\ pending = Err(NoContentMsg)
          /\ \A i \in 1..Len(statusLog) : statusLog[i] # Complete
  /\ (pc = "Done" /\ status = Failed(NoContentMsg))
       => result = <<Err(NoContentMsg)>>

\* The response [timestamp, request_hash, nil] has just been handled.
C14_Witness ==
  /\ pc = "SendResult"
  /\ lastEvent = Ev("own", "Data", "nil", NoHash, 0, "")
  /\ status = Failed(NoContentMsg)
  /\ Last(calls) = "send:Request"

\* C15: when every part of a resource has arrived and assemble_and_prove
\* rejects them, the request ends Failed("Failed to assemble resource"), no
\* proof packet is sent and the result carries no assembled bytes.
C15_AssembleFailure ==
  \A h \in Hashes :
    (/\ resources[h].known
     /\ resources[h].received = PartIndices(resources[h].total_parts)
     /\ ~assemble_and_prove(h))
    => /\ pc = "SendResult"
       /\ status = Failed(AssembleErrorMsg)
       /\ pending = Err(AssembleErrorMsg)
       /\ statusLog[Len(statusLog) - 1]
            = Retrieving(resources[h].total_parts, resources[h].total_parts)
       /\ \A i \in 1..Len(calls) : calls[i] # "send:Proof"

\* Every part of h2 has arrived and the assembled bytes were rejected.
C15_Witness ==
  /\ pc = "SendResult"
  /\ resources["h2"].known
  /\ resources["h2"].received = PartIndices(TotalParts("h2"))
  /\ OwnEv("ResourcePacket") /\ lastEvent.kind = "part" /\ lastEvent.h = "h2"
  /\ status = Failed(AssembleErrorMsg)

CallCount(c) == Cardinality({i \in 1..Len(calls) : calls[i] = c})

\* C16 (states): the task has called transport.request_path at most once
\* and transport.link at most once, and has sent at most one page request.
C16_CallsOnce ==
  /\ CallCount("request_path") <= 1
  /\ CallCount("link") <= 1
  /\ CallCount("send:Request") <= 1

\* C16 (steps): once the request has failed the task makes no transport call.
C16_NoCallAfterFailure ==
  status.tag = "Failed" => calls' = calls

\* C16: nothing is retried within one fetch: request_path, link and the page
\* request happen at most once each, and no transport call follows a failure.
C16_NothingRetried == []C16_CallsOnce /\ [][C16_NoCallAfterFailure]_vars

\* A request that asked for the path, linked, sent its page request and
\* then timed out, with exactly these three calls made.
C16_Witness ==
  /\ pc = "Done"
  /\ status = Failed(TimedOutMsg)
  /\ calls = <<"request_path", "link", "send:Request">>

\* C17: a fetch, whatever its outcome, leaves the destination cache and the
\* node registry as they were when it was submitted (here: as constructed),
\* and sends nothing on the announce channels.
C17_FetchLeavesClientState ==
  /\ known_destinations = EmptyCache
  /\ registry = EmptyRegistry
  /\ file = FileOf(EmptyRegistry)
  /\ node_announce = <<>>
  /\ peer_announce = <<>>

\* A fetch that found no cached descriptor, linked with the synthesized one
\* and failed; the cache still has no entry for its node.
C17_Witness ==
  /\ pc = "SendResult"
  /\ status = Failed(LinkClosedMsg)
  /\ dest_desc = to_destination_desc(FetchNode)
  /\ Last(calls) = "link"
  /\ known_destinations[FetchNode.hash] = NoDesc
  /\ registry[FetchNode.hash] = NoNode

\* ------------------------------------------------------ claims: announces
IsNodeAnnounce(a) == NameHash(a.desc.name) = NameHash(NodeName)
NodeAnnounces == {i \in 1..Len(handled) : IsNodeAnnounce(handled[i])}
PeerAnnounces == {i \in 1..Len(handled) : ~IsNodeAnnounce(handled[i])}
AllIdle == \A t \in Tasks : apc[t] = "idle"
Running(pcs) == {t \in Tasks : apc[t] \in pcs}

\* C18: an announce is a node announce exactly when the name hash of its
\* destination is that of ("nomadnetwork","node"), whatever its app_data:
\* a node announce is saved to the registry and sent on node_announce only,
\* any other announce is sent on peer_announce only and never reaches the
\* registry.
C18_Classification ==
  /\ \A t \in Running({"saved"}) : IsNodeAnnounce(announce[t])
  /\ Len(node_announce)
       + Cardinality({t \in Running({"inserted", "saved"}) : IsNodeAnnounce(announce[t])})
       = Cardinality(NodeAnnounces)
  /\ Len(peer_announce)
       + Cardinality({t \in Running({"inserted"}) : ~IsNodeAnnounce(announce[t])})
       = Cardinality(PeerAnnounces)
  /\ \A i \in 1..Len(node_announce) :
       \E j \in NodeAnnounces : node_announce[i] = NodeOf(handled[j])
  /\ \A i \in 1..Len(peer_announce) :
       \E j \in PeerAnnounces : peer_announce[i] = PeerOf(handled[j])
  /\ \A h \in AddrHashes :
       registry[h] # NoNode
         => \E j \in NodeAnnounces : registry[h] = NodeOf(handled[j])
  /\ AllIdle
       => \A j \in NodeAnnounces :
            registry[handled[j].desc.address_hash] # NoNode

\* A node announce with plain-text app_data and a peer announce with
\* array-shaped app_data have both been handled.
C18_Witness ==
  /\ AllIdle
  /\ node_announce = <<Info("a1", "Bob", "k1")>>
  /\ peer_announce = <<Info("a2", "Alice", "k1")>>
  /\ registry = [EmptyRegistry EXCEPT !["a1"] = Info("a1", "Bob", "k1")]

Entries == {h \in AddrHashes : registry[h] # NoNode}
CacheAfter(a) == [EmptyCache EXCEPT ![a.desc.address_hash] = a.desc]
RegistryAfter(a) ==
  IF IsNodeAnnounce(a)
    THEN [EmptyRegistry EXCEPT ![a.desc.address_hash] = NodeOf(a)]
    ELSE EmptyRegistry

\* C19 (states): every registry entry is stored under its own address hash,
\* there are no more entries than node addresses announced, and when the
\* same announce was ingested more than once the registry and the cache are
\* as after ingesting it once.
C19_OneEntryPerHash ==
  /\ \A h \in Entries : registry[h].hash = h
  /\ Cardinality(Entries)
       <= Cardinality({handled[j].desc.address_hash : j \in NodeAnnounces})
  /\ (AllIdle /\ handled # <<>> /\ \A i \in 1..Len(handled) : handled[i] = handled[1])
       => /\ known_destinations = CacheAfter(handled[1])
          /\ registry = RegistryAfter(handled[1])

\* C19 (steps): the save of a node that is already known replaces the name
\* of its entry and adds no entry; no step removes an entry.
C19_ReannounceReplaces ==
  /\ Entries \subseteq {h \in AddrHashes : registry'[h] # NoNode}
  /\ \A t \in Tasks :
       (apc[t] = "inserted" /\ apc'[t] = "saved")
         => LET node == NodeOf(announce[t]) IN
              /\ registry'[node.hash] = node
              /\ \A h \in AddrHashes \ {node.hash} : registry'[h] = registry[h]
              /\ (node.hash \in Entries
                    => {h \in AddrHashes : registry'[h] # NoNode} = Entries)

\* C19: after any sequence of announces the registry holds at most one entry
\* per address hash; a re-announce of a known node replaces the name of its
\* entry and adds none; ingesting an announce twice is the same as once.
C19_RegistryIdempotent ==
  []C19_OneEntryPerHash /\ [][C19_ReannounceReplaces]_vars

\* The node a1 announced itself as Alice and then as Bob: one entry, the
\* second name.
C19_Witness ==
  /\ AllIdle
  /\ Len(handled) = 2
  /\ node_announce = <<Info("a1", "Alice", "k1"), Info("a1", "Bob", "k1")>>
  /\ registry = [EmptyRegistry EXCEPT !["a1"] = Info("a1", "Bob", "k1")]
  /\ Entries = {"a1"}

LastFor(h) ==
  LET idx == {i \in 1..Len(handled) : handled[i].desc.address_hash = h} IN
    IF idx = {} THEN NoDesc
    ELSE handled[CHOOSE i \in idx : \A j \in idx : j <= i].desc

\* C20: the destination cache maps every announced address hash, of a node
\* or of a peer, to the descriptor of the announce handled last for that
\* hash, holds nothing for the other hashes, and every cached descriptor
\* has the address hash it is stored under.
C20_CacheLastWriterWins ==
  \A h \in AddrHashes :
    /\ known_destinations[h] = LastFor(h)
    /\ known_destinations[h] # NoDesc => known_destinations[h].address_hash = h

\* The address a1 was announced as a node and then as a peer destination:
\* the cache holds the second descriptor.
C20_Witness ==
  /\ Len(handled) = 2
  /\ handled[1].desc = Desc("a1", NodeName, "k1")
  /\ handled[2].desc = Desc("a1", PeerName, "k1")
  /\ known_destinations["a1"] = Desc("a1", PeerName, "k1")
  /\ known_destinations["a2"] = NoDesc

\* ------------------------------------------------- claims: announce order
\* Task t sends its announce in this step.
Sends(t) == apc[t] \in {"inserted", "saved"} /\ apc'[t] = "idle"

\* C21: announces are broadcast in the order NetworkClient ingested them,
\* for every interleaving of concurrent handle_announce calls: when a task
\* sends announce B, no announce A of the same channel whose state writes
\* were all made before B's first write is still waiting to be sent.
C21_BroadcastInIngestOrder ==
  [][\A t \in Tasks : Sends(t) => ahead[t] = {}]_vars

\* ------------------------------------------------ claims: registry file
\* C22: every registry mutation is written through to the backing file
\* atomically: at every instant the file holds a complete registry, never a
\* truncated or partial one, and a step leaves in it either the content it
\* had or the complete new registry.
C22_AtomicWriteThrough ==
  [](file.complete) /\ [][file' \in {file, FileOf(registry')}]_vars

\* ------------------------------------------------ claims: resource packets
PacketsOf(h) == {k \in 1..Len(packets) : packets[k].h = h}
\* Position of the first announcement of h, or past the end.
Announced(h) ==
  LET advs == {k \in PacketsOf(h) : packets[k].kind = "adv"} IN
    IF advs = {} THEN Len(packets) + 1
    ELSE CHOOSE k \in advs : \A j \in advs : k <= j
\* The part indices in [0,total_parts) seen for h up to packet k; a part
\* that arrives before the announcement of its resource is dropped.
Seen(h, k) ==
  {packets[j].n : j \in {j \in PacketsOf(h) :
       /\ packets[j].kind = "part"
       /\ Announced(h) < j /\ j <= k
       /\ packets[j].n \in PartIndices(TotalParts(h))}}

\* C23: for any sequence of resource packets (duplicated parts, reordered
\* parts, repeated announcements) handle_packet returns Assemble for a
\* packet of h exactly when, with that packet, every part index in
\* [0,total_parts) has been seen; an announcement returns RequestParts;
\* received_count is the number of distinct indices seen, whatever the
\* duplicates; and once all are seen the bytes assembled in index order
\* equal the original content.
C23_AssembleIffAllSeen ==
  /\ Len(returned) = Len(packets)
  /\ \A k \in 1..Len(packets) :
       LET e == packets[k] IN
         /\ e.kind = "adv" => returned[k] = "RequestParts"
         /\ e.kind = "part" =>
              /\ returned[k] \in {"Assemble", "None"}
              /\ returned[k] = "Assemble"
                   <=> /\ Seen(e.h, k) = PartIndices(TotalParts(e.h))
                       /\ e.n \in Seen(e.h, k)
  /\ \A h \in Hashes :
       /\ received_count(resources[h]) = Cardinality(Seen(h, Len(packets)))
       /\ resources[h].known <=> Announced(h) <= Len(packets)
       /\ Seen(h, Len(packets)) = PartIndices(TotalParts(h))
            => Assembled(resources[h]) = Original(h)

\* The parts of h1 arrived in reverse order, one of them twice, with a
\* repeated announcement in between; the last packet completed the resource.
C23_Witness ==
  /\ Len(packets) = MaxPackets
  /\ returned[1] = "RequestParts"
  /\ \A k \in 1..MaxPackets : packets[k].h = "h1"
  /\ \E k \in 2..(MaxPackets - 1) :
       packets[k].kind = "adv" /\ Seen("h1", k) # {}
  /\ \E j, k \in 2..(MaxPackets - 1) :
       j # k /\ packets[j] = packets[k] /\ packets[j].kind = "part"
  /\ returned[MaxPackets] = "Assemble"
  /\ packets[MaxPackets].n = 0
  /\ packets[MaxPackets].h = "h1"
  /\ received_count(resources["h1"]) = TotalParts("h1")
  /\ Assembled(resources["h1"]) = Original("h1")

\* ------------------------------------------------- claims: fetch, part 3
\* The heads of the three wait loops: path polling, link-activation wait
\* and response loop.
IterationHeads == {"WaitPathTop", "LinkWaitTop", "LoopTop"}

\* C24: the token is checked at the top of every iteration of the three
\* wait loops: the step the task takes from a loop head with the token set
\* consumes no event, makes no transport call, publishes Cancelled and goes
\* to send Err("Cancelled").
C24_CancelAtLoopHead ==
  [][(pc \in IterationHeads /\ cancel /\ pc' # pc)
       => /\ status' = Cancelled
          /\ Last(statusLog') = Cancelled
          /\ pending' = Err("Cancelled")
          /\ pc' = "SendResult"
          /\ link_events' = link_events
          /\ lagged' = lagged
          /\ lastEvent' = lastEvent
          /\ calls' = calls]_vars

\* The request was cancelled in the response loop with an event waiting in
\* the receiver: the event is still there and the status is Cancelled.
C24_Witness ==
  /\ pc = "SendResult"
  /\ status = Cancelled
  /\ pending = Err("Cancelled")
  /\ Len(statusLog) >= 2
  /\ statusLog[Len(statusLog) - 1] = AwaitingResponse
  /\ link_events # <<>>
  /\ Last(calls) = "send:Request"

\* The result r is the one that belongs to the terminal status s.
Agrees(r, s) ==
  /\ IsTerminal(s)
  /\ r.ok <=> s = Complete
  /\ r = Err("Cancelled") <=> s = Cancelled
  /\ (~r.ok /\ r # Err("Cancelled")) <=> s.tag = "Failed"
  /\ s.tag = "Failed" => r = Err(s.msg)

\* C25: the value sent on the result channel agrees with the final status
\* of the request: Ok(bytes) exactly with Complete, Err("Cancelled") exactly
\* with Cancelled and Err(m) exactly with Failed(m); so does the value the
\* task is about to send.
C25_ResultAgreesWithStatus ==
  /\ \A i \in 1..Len(result) : Agrees(result[i], status)
  /\ pc = "SendResult" => Agrees(pending, status)
  /\ (pc = "Done" /\ result # <<>>) => result = <<pending>>

\* A page was delivered to a caller that still holds the request.
C25_Witness ==
  /\ pc = "Done"
  /\ ~dropped
  /\ result = <<Ok(PageBody)>>
  /\ status = Complete

Published(s) == \E i \in 1..Len(statusLog) : statusLog[i] = s

\* C27: LinkEstablished is published only if the link was Active when
\* transport.link returned or the Activated event of this request's link
\* was received; when the link was already Active the activation wait is
\* never entered and no event is taken before LinkEstablished.
C27_EstablishedOnlyIfActive ==
  /\ Published(LinkEstablished)
       => already_active \/ link_result = "Activated"
  /\ already_active => link_result = "none" /\ ~LinkWaiting
  /\ pc = "Established"
       => IF already_active
            THEN lastEvent = NoEvent
            ELSE /\ link_result = "Activated"
                 /\ OwnEv("Activated")

\* The link was not Active at first; its Activated event was received and
\* the request went on to AwaitingResponse.
C27_Witness ==
  /\ ~already_active
  /\ link_result = "Activated"
  /\ Published(LinkEstablished)
  /\ status = AwaitingResponse

\* C28: the task subscribes to the link events before it creates the link,
\* so the Activated event of a link that activates while the task waits,
\* before the deadline, reaches the task: such a request never ends with
\* "Connection timed out".
C28_ActivationInTimeNeverTimesOut ==
  activatedInTime => status # Failed(ConnTimedOutMsg)

\* C29: every request that publishes Connecting has published
\* PathFound{hops} before it, with the hop count the transport returned.
C29_PathFoundBeforeConnecting ==
  \A j \in 1..Len(statusLog) :
    statusLog[j] = Connecting
      => /\ hops # None
         /\ \E i \in 1..(j - 1) : statusLog[i] = PathFound(hops)

\* C30: when the path is known at submission the request goes straight to
\* PathFound: the status on the handle is never RequestingPath or
\* WaitingForAnnounce and transport.request_path is not called.
C30_KnownPathSkipsDiscovery ==
  (has_path /\ pc # "Start")
    => /\ status \notin {RequestingPath, WaitingForAnnounce}
       /\ \A i \in 1..Len(calls) : calls[i] # "request_path"

\* ------------------------------------------------- claims: fetch, part 4
\* C31: provided timers fire, every fetch eventually reaches a terminal
\* status: a request in AwaitingResponse or Retrieving ends, however many
\* events of other links keep arriving on the broadcast stream.
C31_EventuallyTerminal ==
  (status.tag \in {"AwaitingResponse", "Retrieving"}) ~> IsTerminal(status)

\* The task handed a proof packet to the transport.
ProofSent == \E i \in 1..Len(calls) : calls[i] = "send:Proof"

\* C32 (as stated): a proof packet is sent only for a request that ends
\* Complete with an Ok result.
C32_ProofOnlyIfComplete ==
  (ProofSent /\ pc \in {"SendResult", "Done"})
    => (status = Complete /\ pending.ok)

\* C32 (amended): a proof packet is sent only for a resource that
\* assemble_and_prove accepted, as the last packet of the request and in
\* the step that ends it: the request ends Complete with the page when the
\* assembled bytes parse, Failed with the parse error when they do not.
C32_ProofOnlyIfAssembled ==
  ProofSent =>
    /\ pc \in {"SendResult", "Done"}
    /\ calls[Len(calls)] = "send:Proof"
    /\ \A i \in 1..(Len(calls) - 1) : calls[i] # "send:Proof"
    /\ status \in {Complete, Failed(ResourceParseMsg), Failed(InvalidUtf8Msg)}
    /\ pending.ok <=> status = Complete
    /\ statusLog[Len(statusLog) - 1] = Retrieving(MaxParts, MaxParts)
    /\ pc = "SendResult" =>
         /\ OwnEv("ResourcePacket")
         /\ assemble_and_prove(lastEvent.h)
         /\ \E data \in ResourceData(lastEvent.h) :
              LET r == parse_resource_content(data) IN
                /\ pending = r
                /\ status = IF r.ok THEN Complete ELSE Failed(r.val)

\* A proof was sent for a resource whose bytes are not a page.
C32_Witness ==
  /\ ProofSent
  /\ pc = "Done"
  /\ MalformedData \in served
  /\ status = Failed(ResourceParseMsg)
  /\ result = <<Err(ResourceParseMsg)>>

\* The task has looked the destination up.
LookedUp == dest_desc # NoDesc

\* C33: the descriptor the task passes to transport.link is the cache entry
\* of node.hash if there is one, otherwise the descriptor synthesized from
\* the NodeInfo under the name nomadnetwork.node; either way its address
\* hash is node.hash, and no link is created without it.
C33_LinkDescriptor ==
  /\ LookedUp =>
       /\ dest_desc = IF known_destinations[FetchNode.hash] # NoDesc
                        THEN known_destinations[FetchNode.hash]
                        ELSE Desc(FetchNode.hash, NodeName, FetchNode.identity)
       /\ dest_desc.address_hash = FetchNode.hash
  /\ ((\E i \in 1..Len(calls) : calls[i] = "link") /\ pc # "Done") => LookedUp

\* A link was created with the cached descriptor, which carries another
\* name than the synthesized one.
C33_Witness ==
  /\ Len(calls) >= 1 /\ calls[1] = "link"
  /\ dest_desc = known_destinations[FetchNode.hash]
  /\ dest_desc.name = PeerName

\* C34: the task never awaits transport.send_packet with the link mutex
\* held: the page request, every request for parts and the proof are handed
\* to the transport after the guard is released, so a transport that locks
\* the link while it sends is never kept waiting by the task.
C34_NoSendUnderGuard ==
  \A i \in 1..Len(calls) :
    calls[i] \in {"request_path", "link",
                  "send:Request", "send:Parts", "send:Proof"}

\* A fetch that sent the page request, a request for parts and the proof.
C34_Witness ==
  /\ pc = "Done"
  /\ status = Complete
  /\ calls = <<"link", "send:Request", "send:Parts", "send:Proof">>

\* ------------------------------------------------ claims: announces, part 2
\* The last NodeInfo sent on node_announce for the address h.
LastSent(h) ==
  LET idx == {i \in 1..Len(node_announce) : node_announce[i].hash = h} IN
    IF idx = {} THEN NoNode
    ELSE node_announce[CHOOSE i \in idx : \A j \in idx : j <= i]

\* C35: once every handle_announce call has finished, the registry entry of
\* a node address and the last NodeInfo sent on node_announce for it carry
\* the same name, also when calls for that address ran concurrently with
\* different names.
C35_StoredIsLastBroadcast ==
  AllIdle =>
    \A h \in AddrHashes :
      LastSent(h) # NoNode => registry[h].name = LastSent(h).name

\* ------------------------------------------------------- claims: registry
\* C36: after any sequence of save, update_name and remove whose file
\* writes succeeded, NodeRegistry::new on the same path yields exactly the
\* entries in memory: the same address hashes, each with the same name and
\* identity.
C36_ReopenYieldsMemory ==
  writes_ok => load_from_path(file) = registry

\* A node was saved and renamed, another saved and removed, every write
\* succeeded, and the file holds the one node left.
C36_Witness ==
  /\ writes_ok
  /\ registry = [EmptyRegistry EXCEPT !["a1"] = Info("a1", "Bob", "k1")]
  /\ to_string_pretty(file.nodes)
       = {[hash |-> "6131", name |-> "Bob", identity |-> "6b31"]}

\* -------------------------------------------------------- claims: History
\* can_go_forward
can_go_forward(h) == h.forward_stack # <<>>

\* The stack next is stack with url pushed on top, its oldest entry
\* discarded if it was full.
PushedOnto(stack, url, next) ==
  /\ next # <<>>
  /\ next[Len(next)] = url
  /\ Len(next) <= MAX_HISTORY
  /\ IF Len(stack) < MAX_HISTORY
       THEN next = stack \o <<url>>
       ELSE next = Tail(stack) \o <<url>>

\* C39: after any sequence of push, push_back, push_forward, pop_back,
\* pop_forward and clear neither stack holds more than MAX_HISTORY entries,
\* and a push onto a full stack discards the oldest entry and keeps the
\* newest on top.
C39_HistoryBounded ==
  /\ Len(history.back_stack) <= MAX_HISTORY
  /\ Len(history.forward_stack) <= MAX_HISTORY
  /\ \A url \in PageUrls :
       /\ PushedOnto(history.back_stack, url, push(history, url).back_stack)
       /\ PushedOnto(history.back_stack, url,
                     push_back(history, url).back_stack)
       /\ PushedOnto(history.forward_stack, url,
                     push_forward(history, url).forward_stack)

\* Both stacks are full, the back stack with /page1 as its oldest entry
\* and /page2 on top.
C39_Witness ==
  /\ Len(history.back_stack) = MAX_HISTORY
  /\ Len(history.forward_stack) = MAX_HISTORY
  /\ history.back_stack[1] = "/page1"
  /\ history.back_stack[MAX_HISTORY] = "/page2"

\* C40: History::push empties the forward stack, so can_go_forward is
\* false right after a push whatever came before, while push_back and
\* push_forward each leave the other stack as it is.
C40_PushClearsForward ==
  \A url \in PageUrls :
    /\ ~can_go_forward(push(history, url))
    /\ push_back(history, url).forward_stack = history.forward_stack
    /\ push_forward(history, url).back_stack = history.back_stack

\* A History with entries on both stacks, as after push, push, pop_back
\* and push_forward.
C40_Witness ==
  /\ history.back_stack = <<"/page1">>
  /\ history.forward_stack = <<"/page2">>

\* -------------------------------------------------------- claims: Browser
\* The browser b shows the page and keeps the stacks of the browser a.
SamePage(a, b) ==
  /\ b.current = a.current
  /\ b.back_stack = a.back_stack
  /\ b.forward_stack = a.forward_stack

\* C37 (calls): from any state, navigate, set_failed, and set_content for a
\* URL that is not pending leave the current page and both stacks as they
\* are; set_failed for the pending URL keeps the page, records the error
\* and returns loading to Idle.
C37_InertCalls ==
  \A url \in BrowserUrls :
    /\ SamePage(browser, navigate(browser, url))
    /\ SamePage(browser, set_retrieving(browser, url))
    /\ \A reason \in FailReasons :
         LET failed == set_failed(browser, url, reason) IN
           /\ SamePage(browser, failed)
           /\ url # browser.pending_url => failed = browser
           /\ url = browser.pending_url
                => /\ failed.error = reason
                   /\ failed.loading = "Idle"
                   /\ failed.pending_url = NoUrl
    /\ \A content \in PageContents :
         url # browser.pending_url
           => set_content(browser, url, content) = browser

\* C37 (steps): a step that changes the current page or a stack is a
\* set_content for the pending URL, a go_back or a go_forward.
C37_PageChanges ==
  ~SamePage(browser, browser')
    => \/ /\ browser.pending_url # NoUrl
          /\ \E content \in PageContents :
               browser' = set_content(browser, browser.pending_url, content)
       \/ ~is_loading(browser) /\ browser' = go_back(browser)
       \/ ~is_loading(browser) /\ browser' = go_forward(browser)

\* C37: in the Browser the current page changes only through set_content
\* for the pending URL or through back and forward.
C37_CurrentPageStable == []C37_InertCalls /\ [][C37_PageChanges]_vars

\* A load of page2 failed while page1 was on screen: page1 stays, the
\* error is recorded and nothing is loading.
C37_Witness ==
  /\ current_url(browser) = "abc:page1.mu"
  /\ browser.error = "Connection failed"
  /\ browser.loading = "Idle"
  /\ browser.pending_url = NoUrl
  /\ browser.back_stack # <<>>

\* Every page on the back stack of b has content.
BackLoaded(b) ==
  /\ b.back_stack # <<>>
  /\ \A i \in 1..Len(b.back_stack) : b.back_stack[i].content # ""

\* C38: with no load in progress and a back stack of loaded pages, go_back
\* then go_forward restores the current URL and the sizes of both stacks;
\* set_content for the pending URL pushes the former current page onto the
\* back stack and empties the forward stack; go_back and go_forward do
\* nothing while a load is in progress.
C38_BackForward ==
  /\ (~is_loading(browser) /\ BackLoaded(browser))
       => LET back == go_back(browser)
              again == go_forward(back)
          IN
            /\ current_url(back) = browser.back_stack[Len(browser.back_stack)].url
            /\ Len(back.forward_stack) = Len(browser.forward_stack) + 1
            /\ current_url(again) = current_url(browser)
            /\ Len(again.back_stack) = Len(browser.back_stack)
            /\ Len(again.forward_stack) = Len(browser.forward_stack)
  /\ browser.pending_url # NoUrl
       => \A content \in PageContents :
            LET loaded == set_content(browser, browser.pending_url, content) IN
              /\ loaded.forward_stack = <<>>
              /\ loaded.back_stack =
                   IF browser.current # NoPage
                     THEN Append(browser.back_stack, browser.current)
                     ELSE browser.back_stack
              /\ current_url(loaded) = browser.pending_url
  /\ is_loading(browser)
       => /\ go_back(browser) = browser
          /\ go_forward(browser) = browser

\* Two pages were loaded and the user went back: page1 is on screen, page2
\* on the forward stack, pages with content on the back stack, no load in
\* progress.
C38_Witness ==
  /\ ~is_loading(browser)
  /\ BackLoaded(browser)
  /\ browser.forward_stack # <<>>
  /\ browser.current # NoPage
====
